---- MODULE Spec2Model ----
(***************************************************************************)
(* A model of the mcpforge command line tool: the `new` command with its   *)
(* procedural generators, and the `validate`, `diagram` and `add` commands *)
(* with the language detector, the static analyzer and the structural      *)
(* validator.                                                              *)
(*                                                                         *)
(* Text is modelled as follows.  A name is a sequence of one-character     *)
(* strings.  A file's content is a sequence of tokens, one per place of    *)
(* the text that any reader of the tool (String.includes, a regular        *)
(* expression of the analyzer) or any writer (an interpolation hole of a   *)
(* generator's template literal) distinguishes; a token is a record        *)
(* [shape, id, arg]: the syntactic shape, the literal identifier written   *)
(* in it, and the interpolated name (<<>> when there is none).             *)
(***************************************************************************)
EXTENDS Naturals, Sequences, FiniteSets, TLC

(***************************************************************************)
(* Bounds of the model.                                                    *)
(***************************************************************************)
\* Longest project name drawn from NameAlphabet.
MaxNameLen == 2
\* Most files a pre-existing project directory holds.
MaxFiles == 3

\* The longest list of tools, of resources and of prompts a server file of
\* the diagram runs declares.
MaxCaps == 2
\* Most words a name written in kebab, snake or Pascal form is made of.
MaxWords == 2
\* Longest name over ConvAlphabet the conversions are applied to.
MaxConvLen == 4
\* Most calls of the wrapped function in flight at the same time.
MaxCallers == 2
\* Calls made to the circuit breaker in one run.
MaxCalls == 4
\* Last instant of the clock.
MaxTime == 3
\* Largest value of a parameter of the circuit breaker's configuration.
MaxParam == 2

(***************************************************************************)
(* Characters and strings.                                                 *)
(***************************************************************************)
UpperLetters ==
    <<"A","B","C","D","E","F","G","H","I","J","K","L","M",
      "N","O","P","Q","R","S","T","U","V","W","X","Y","Z">>

LowerLetters ==
    <<"a","b","c","d","e","f","g","h","i","j","k","l","m",
      "n","o","p","q","r","s","t","u","v","w","x","y","z">>

\* /[A-Z]/
IsUpper(c) == \E i \in 1..26 : UpperLetters[i] = c

IsLower(c) == \E i \in 1..26 : LowerLetters[i] = c

\* String.prototype.toLowerCase, one character
LowerChar(c) ==
    IF IsUpper(c)
    THEN LowerLetters[CHOOSE i \in 1..26 : UpperLetters[i] = c]
    ELSE c

\* String.prototype.toUpperCase, one character
UpperChar(c) ==
    IF IsLower(c)
    THEN UpperLetters[CHOOSE i \in 1..26 : LowerLetters[i] = c]
    ELSE c

toLowerCase(s) == [i \in 1..Len(s) |-> LowerChar(s[i])]

toUpperCase(s) == [i \in 1..Len(s) |-> UpperChar(s[i])]

\* str.replace(/([A-Z])/g, sep + '$1')
RECURSIVE PrefixUpper(_, _)
PrefixUpper(s, sep) ==
    IF s = <<>> THEN <<>>
    ELSE (IF IsUpper(Head(s)) THEN <<sep, Head(s)>> ELSE <<Head(s)>>)
         \o PrefixUpper(Tail(s), sep)

\* str.replace(/^c/, '')
StripLeading(s, c) == IF s # <<>> /\ Head(s) = c THEN Tail(s) ELSE s

\* str.replace(/c/g, d)
ReplaceAll(s, c, d) == [i \in 1..Len(s) |-> IF s[i] = c THEN d ELSE s[i]]

\* str.split(/[-_]/): the words between separators, empty words kept
RECURSIVE SplitWords(_, _)
SplitWords(s, cur) ==
    IF s = <<>> THEN <<cur>>
    ELSE IF Head(s) \in {"-", "_"}
         THEN <<cur>> \o SplitWords(Tail(s), <<>>)
         ELSE SplitWords(Tail(s), Append(cur, Head(s)))

\* word.charAt(0).toUpperCase() + word.slice(1).toLowerCase()
Capitalize(w) ==
    IF w = <<>> THEN <<>>
    ELSE <<UpperChar(Head(w))>> \o toLowerCase(Tail(w))

RECURSIVE JoinWords(_)
JoinWords(ws) ==
    IF ws = <<>> THEN <<>> ELSE Head(ws) \o JoinWords(Tail(ws))

\* A variant without .toLowerCase()
toSnakeCaseKeepsCase(str) ==
    ReplaceAll(StripLeading(PrefixUpper(str, "_"), "_"), "-", "_")

\* A variant without .replace(/^_/, '')
toSnakeCaseKeepsLeading(str) ==
    ReplaceAll(toLowerCase(PrefixUpper(str, "_")), "-", "_")

toSnakeCase(str) ==
    ReplaceAll(StripLeading(toLowerCase(PrefixUpper(str, "_")), "_"), "-", "_")

toPascalCase(str) ==
    LET words == SplitWords(str, <<>>)
    IN  JoinWords([i \in 1..Len(words) |-> Capitalize(words[i])])

\* A variant without .replace(/_/g, '-')
toKebabCaseKeepsUnderscore(str) ==
    StripLeading(toLowerCase(PrefixUpper(str, "-")), "-")

toKebabCase(str) ==
    ReplaceAll(StripLeading(toLowerCase(PrefixUpper(str, "-")), "-"), "_", "-")

\* s occurs in t as a contiguous substring (String.prototype.includes)
IsSubstring(s, t) ==
    \E k \in 0..Len(t) :
        /\ k + Len(s) <= Len(t)
        /\ \A i \in 1..Len(s) : t[k + i] = s[i]

(***************************************************************************)
(* Paths and file contents.                                                *)
(***************************************************************************)
\* The characters of the string literals the tool uses.
Chars(str) ==
    CASE str = "pyproject.toml" -> <<"p", "y", "p", "r", "o", "j", "e", "c", "t", ".", "t", "o", "m", "l">>
      [] str = "package.json" -> <<"p", "a", "c", "k", "a", "g", "e", ".", "j", "s", "o", "n">>
      [] str = "go.mod" -> <<"g", "o", ".", "m", "o", "d">>
      [] str = "Cargo.toml" -> <<"C", "a", "r", "g", "o", ".", "t", "o", "m", "l">>
      [] str = "README.md" -> <<"R", "E", "A", "D", "M", "E", ".", "m", "d">>
      [] str = ".gitignore" -> <<".", "g", "i", "t", "i", "g", "n", "o", "r", "e">>
      [] str = ".env" -> <<".", "e", "n", "v">>
      [] str = "tsconfig.json" -> <<"t", "s", "c", "o", "n", "f", "i", "g", ".", "j", "s", "o", "n">>
      [] str = "server.py" -> <<"s", "e", "r", "v", "e", "r", ".", "p", "y">>
      [] str = "index.ts" -> <<"i", "n", "d", "e", "x", ".", "t", "s">>
      [] str = "main.go" -> <<"m", "a", "i", "n", ".", "g", "o">>
      [] str = "main.rs" -> <<"m", "a", "i", "n", ".", "r", "s">>
      [] str = "__init__.py" -> <<"_", "_", "i", "n", "i", "t", "_", "_", ".", "p", "y">>
      [] str = "__main__.py" -> <<"_", "_", "m", "a", "i", "n", "_", "_", ".", "p", "y">>
      [] str = "src" -> <<"s", "r", "c">>
      [] str = ".hbs" -> <<".", "h", "b", "s">>
      [] str = "projectName" -> <<"p", "r", "o", "j", "e", "c", "t", "N", "a", "m", "e">>
      [] str = "projectNameSnake" -> <<"p", "r", "o", "j", "e", "c", "t", "N", "a", "m", "e", "S", "n", "a", "k", "e">>
      [] str = "projectNamePascal" -> <<"p", "r", "o", "j", "e", "c", "t", "N", "a", "m", "e", "P", "a", "s", "c", "a", "l">>
      [] str = "projectNameKebab" -> <<"p", "r", "o", "j", "e", "c", "t", "N", "a", "m", "e", "K", "e", "b", "a", "b">>
      [] str = "transport" -> <<"t", "r", "a", "n", "s", "p", "o", "r", "t">>
      [] str = "pattern" -> <<"p", "a", "t", "t", "e", "r", "n">>
      [] str = "stdio" -> <<"s", "t", "d", "i", "o">>
      [] str = "sse" -> <<"s", "s", "e">>
      [] str = "http" -> <<"h", "t", "t", "p">>
      [] str = "basic" -> <<"b", "a", "s", "i", "c">>
      [] str = "enterprise" -> <<"e", "n", "t", "e", "r", "p", "r", "i", "s", "e">>
      [] str = "microservices" -> <<"m", "i", "c", "r", "o", "s", "e", "r", "v", "i", "c", "e", "s">>

\* A directory relative to the project root is the sequence of its segment
\* names; <<>> is the root.  path.join drops an empty segment.
Root == <<>>

InDir(dir, segment) == IF segment = <<>> THEN dir ELSE Append(dir, segment)

SrcDir == InDir(Root, Chars("src"))

\* A file of the project directory: its directory and its file name.
Path(dir, file) == [dir |-> dir, file |-> Chars(file)]

\* No path (null)
NullPath == [dir |-> <<>>, file |-> <<>>]

\* One distinguished place of a file's text.
Tok(shape, id, arg) == [shape |-> shape, id |-> id, arg |-> arg]

NoArg == <<>>

\* The search strings the validator passes to String.includes, and which of
\* them the literal text of each token shape contains.
ShapeNeedles(shape) ==
    CASE shape = "toml_dep_mcp"           -> {"mcp"}
      [] shape = "toml_dep_fastmcp"       -> {"mcp", "fastmcp"}
      [] shape = "toml_requires_python"   -> {"requires-python"}
      [] shape = "gomod_require_mcp_go"   -> {"mcp-go"}
      [] shape = "gomod_require_go_sdk"   -> {"go-sdk"}
      [] shape = "cargo_dep_rmcp"         -> {"rmcp", "mcp"}
      [] shape = "py_tool_async_def"      -> {"@server.tool", ".tool("}
      [] shape = "py_tool_def"            -> {"@server.tool", ".tool("}
      [] shape = "py_tool_call"           -> {".tool("}
      [] shape = "ts_import_schemas"      -> {"ListToolsRequestSchema"}
      [] shape = "ts_list_tools_handler"  -> {"ListToolsRequestSchema"}
      [] shape = "ts_server_tool_call"    -> {".tool("}
      [] shape = "go_add_tool"            -> {"AddTool"}
      [] shape = "go_import_mcp_go"       -> {"mcp-go"}
      [] shape = "rs_tool_attr"           -> {"#[tool"}
      [] shape = "rs_builder_tool"        -> {".tool("}
      [] shape = "rs_use_rmcp"            -> {"rmcp", "mcp"}
      [] OTHER                            -> {}

\* The search strings that consist of name characters only, as characters:
\* an interpolated name can contain them.
NeedleChars(needle) ==
    CASE needle = "mcp"     -> <<"m", "c", "p">>
      [] needle = "fastmcp" -> <<"f", "a", "s", "t", "m", "c", "p">>
      [] needle = "rmcp"    -> <<"r", "m", "c", "p">>
      [] needle = "AddTool" -> <<"A", "d", "d", "T", "o", "o", "l">>
      [] OTHER              -> <<>>

\* content.includes(needle)
Includes(content, needle) ==
    \E i \in 1..Len(content) :
        \/ needle \in ShapeNeedles(content[i].shape)
        \/ /\ NeedleChars(needle) # <<>>
           /\ IsSubstring(NeedleChars(needle), content[i].arg)

\* The identifiers of the tokens of `content` whose shape is in `shapes`,
\* in text order: what matchAll with one capture group collects.
RECURSIVE Captures(_, _)
Captures(content, shapes) ==
    IF content = <<>> THEN <<>>
    ELSE (IF Head(content).shape \in shapes THEN <<Head(content).id>> ELSE <<>>)
         \o Captures(Tail(content), shapes)

(***************************************************************************)
(* The procedural generators (commands/new.ts).                            *)
(***************************************************************************)
SUPPORTED_LANGUAGES == {"python", "typescript", "go", "rust"}

SUPPORTED_PATTERNS == {"basic", "enterprise", "microservices"}

SUPPORTED_TRANSPORTS == {"stdio", "sse", "http"}

\* fs.writeFile: the file is created or replaced
WriteFile(files, path, content) == (path :> content) @@ files

generatePythonBasicServer(nameSnake, namePascal) ==
    << Tok("py_doc_title", "", namePascal),
       Tok("py_fastmcp_ctor", "", nameSnake),
       Tok("py_tool_async_def", "hello", NoArg),
       Tok("py_param_default", "World", NoArg),
       Tok("py_tool_async_def", "add", NoArg),
       Tok("py_resource", "config://settings", NoArg),
       Tok("py_settings_name", "", nameSnake) >>

generatePythonEnterpriseServer(nameSnake, namePascal) ==
    << Tok("py_doc_title_enterprise", "", namePascal),
       Tok("py_logger", "", nameSnake),
       Tok("py_lifespan_startup", "", namePascal),
       Tok("py_lifespan_shutdown", "", namePascal),
       Tok("py_fastmcp_ctor_lifespan", "", nameSnake),
       Tok("py_auth_env_flag", "OAUTH2_ENABLED", nameSnake),
       Tok("py_tool_async_def", "hello", NoArg),
       Tok("py_param_default", "World", NoArg),
       Tok("py_tool_async_def", "health_check", NoArg),
       Tok("py_resource", "config://settings", NoArg),
       Tok("py_settings_name_enterprise", "", nameSnake),
       Tok("py_prompt_async_def", "system_prompt", NoArg),
       Tok("py_prompt_text", "", namePascal) >>

\* A variant that gives microservices the enterprise server
PythonServerContentMicroAsEnterprise(nameSnake, namePascal, pattern) ==
    IF pattern = "basic"
    THEN generatePythonBasicServer(nameSnake, namePascal)
    ELSE generatePythonEnterpriseServer(nameSnake, namePascal)

\* const serverContent = pattern === 'enterprise' ? ... : ...
PythonServerContent(nameSnake, namePascal, pattern) ==
    IF pattern = "enterprise"
    THEN generatePythonEnterpriseServer(nameSnake, namePascal)
    ELSE generatePythonBasicServer(nameSnake, namePascal)

generatePythonProject(name, nameSnake, namePascal, pattern, transport) ==
    LET srcDir == InDir(Root, nameSnake)
        f1 == WriteFile(<<>>, Path(Root, "pyproject.toml"),
                << Tok("toml_project_name", "", nameSnake),
                   Tok("toml_requires_python", ">=3.11", NoArg),
                   Tok("toml_dep_mcp", "mcp>=1.0.0", NoArg),
                   Tok("toml_dep_fastmcp", "fastmcp>=2.0.0", NoArg) >>)
        f2 == WriteFile(f1, Path(srcDir, "__init__.py"),
                << Tok("py_doc_title", "", namePascal) >>)
        f3 == WriteFile(f2, Path(srcDir, "__main__.py"),
                << Tok("py_doc_entry", "", namePascal),
                   Tok("py_run_transport", transport, NoArg) >>)
        f4 == WriteFile(f3, Path(srcDir, "server.py"),
                PythonServerContent(nameSnake, namePascal, pattern))
        f5 == WriteFile(f4, Path(Root, "README.md"),
                << Tok("py_readme_title", "", namePascal),
                   Tok("py_readme_usage", "", nameSnake) >>)
        f6 == WriteFile(f5, Path(Root, ".gitignore"),
                << Tok("py_gitignore", ".env", NoArg) >>)
    IN  [dirs |-> {srcDir}, files |-> f6]

generateTypeScriptBasicServer(nameKebab, namePascal) ==
    << Tok("ts_doc_title", "", namePascal),
       Tok("ts_import_stdio_transport", "", NoArg),
       Tok("ts_import_schemas", "", NoArg),
       Tok("ts_server_ctor", "", nameKebab),
       Tok("ts_list_tools_handler", "", NoArg),
       Tok("ts_tool_entry", "hello", NoArg),
       Tok("ts_param_default", "World", NoArg),
       Tok("ts_tool_entry", "add", NoArg),
       Tok("ts_call_tool_case", "hello", NoArg),
       Tok("ts_call_tool_case", "add", NoArg),
       Tok("ts_list_resources_handler", "", NoArg),
       Tok("ts_resource_entry", "config://settings", NoArg),
       Tok("ts_settings_name", "", nameKebab),
       Tok("ts_main_stdio", "", namePascal) >>

generateTypeScriptEnterpriseServer(nameKebab, namePascal) ==
    << Tok("ts_doc_title_enterprise", "", namePascal),
       Tok("ts_import_stdio_transport", "", NoArg),
       Tok("ts_import_schemas", "", NoArg),
       Tok("ts_startup_time", "", NoArg),
       Tok("ts_server_ctor", "", nameKebab),
       Tok("ts_log_starting", "", namePascal),
       Tok("ts_list_tools_handler", "", NoArg),
       Tok("ts_tool_entry", "hello", NoArg),
       Tok("ts_param_default", "World", NoArg),
       Tok("ts_tool_entry", "health_check", NoArg),
       Tok("ts_call_tool_case", "hello", NoArg),
       Tok("ts_call_tool_case", "health_check", NoArg),
       Tok("ts_list_resources_handler", "", NoArg),
       Tok("ts_resource_entry", "config://settings", NoArg),
       Tok("ts_settings_name_enterprise", "", nameKebab),
       Tok("ts_list_prompts_handler", "", NoArg),
       Tok("ts_prompt_entry", "system", NoArg),
       Tok("ts_prompt_text", "", namePascal),
       Tok("ts_main_stdio", "", namePascal) >>

\* const serverContent = pattern === 'enterprise' ? ... : ...
TypeScriptServerContent(nameKebab, namePascal, pattern) ==
    IF pattern = "enterprise"
    THEN generateTypeScriptEnterpriseServer(nameKebab, namePascal)
    ELSE generateTypeScriptBasicServer(nameKebab, namePascal)

generateTypeScriptProject(name, nameKebab, namePascal, pattern, transport) ==
    LET srcDir == SrcDir
        f1 == WriteFile(<<>>, Path(Root, "package.json"),
                << Tok("json_name", "", nameKebab),
                   Tok("json_dependency", "@modelcontextprotocol/sdk", NoArg),
                   Tok("json_dev_dependency", "@types/node", NoArg),
                   Tok("json_dev_dependency", "typescript", NoArg),
                   Tok("json_dev_dependency", "vitest", NoArg),
                   Tok("json_dev_dependency", "eslint", NoArg) >>)
        f2 == WriteFile(f1, Path(Root, "tsconfig.json"),
                << Tok("json_compiler_options", "", NoArg) >>)
        f3 == WriteFile(f2, Path(srcDir, "index.ts"),
                TypeScriptServerContent(nameKebab, namePascal, pattern))
        f4 == WriteFile(f3, Path(Root, "README.md"),
                << Tok("ts_readme_title", "", namePascal) >>)
        f5 == WriteFile(f4, Path(Root, ".gitignore"),
                << Tok("ts_gitignore", ".env", NoArg) >>)
    IN  [dirs |-> {srcDir}, files |-> f5]

generateGoProject(name, nameSnake, namePascal, pattern, transport) ==
    LET f1 == WriteFile(<<>>, Path(Root, "go.mod"),
                << Tok("gomod_module", "", nameSnake),
                   Tok("gomod_require_mcp_go", "v0.6.0", NoArg) >>)
        f2 == WriteFile(f1, Path(Root, "main.go"),
                << Tok("go_doc_title", "", namePascal),
                   Tok("go_import_mcp_go", "", NoArg),
                   Tok("go_server_ctor", "", nameSnake),
                   Tok("go_add_tool", "hello", NoArg),
                   Tok("go_param_default", "World", NoArg),
                   Tok("go_add_tool", "add", NoArg),
                   Tok("go_serve_stdio", "", NoArg) >>)
        f3 == WriteFile(f2, Path(Root, "README.md"),
                << Tok("go_readme_title", "", namePascal),
                   Tok("go_readme_build", "", nameSnake) >>)
        f4 == WriteFile(f3, Path(Root, ".gitignore"),
                << Tok("go_gitignore_binary", "", nameSnake),
                   Tok("go_gitignore", ".env", NoArg) >>)
    IN  [dirs |-> {}, files |-> f4]

generateRustProject(name, nameSnake, namePascal, pattern, transport) ==
    LET srcDir == SrcDir
        f1 == WriteFile(<<>>, Path(Root, "Cargo.toml"),
                << Tok("cargo_package_name", "", nameSnake),
                   Tok("cargo_dep_rmcp", "0.8", NoArg),
                   Tok("cargo_dep", "tokio", NoArg),
                   Tok("cargo_dep", "serde", NoArg),
                   Tok("cargo_dep", "serde_json", NoArg) >>)
        f2 == WriteFile(f1, Path(srcDir, "main.rs"),
                << Tok("rs_doc_title", "", namePascal),
                   Tok("rs_use_rmcp", "", NoArg),
                   Tok("rs_param_default", "World", NoArg),
                   Tok("rs_tool_attr", "hello", NoArg),
                   Tok("rs_tool_attr", "add", NoArg),
                   Tok("rs_server_new", "", nameSnake),
                   Tok("rs_builder_tool", "hello", NoArg),
                   Tok("rs_builder_tool", "add", NoArg),
                   Tok("rs_run_stdio", "", NoArg) >>)
        f3 == WriteFile(f2, Path(Root, "README.md"),
                << Tok("rs_readme_title", "", namePascal) >>)
        f4 == WriteFile(f3, Path(Root, ".gitignore"),
                << Tok("rs_gitignore", ".env", NoArg) >>)
    IN  [dirs |-> {srcDir}, files |-> f4]

\* The directories created and the files written by the generator of `lang`.
generateProject(name, lang, pattern, transport) ==
    LET nameSnake  == toSnakeCase(name)
        namePascal == toPascalCase(name)
        nameKebab  == toKebabCase(name)
    IN  CASE lang = "python" ->
               generatePythonProject(name, nameSnake, namePascal, pattern, transport)
          [] lang = "typescript" ->
               generateTypeScriptProject(name, nameKebab, namePascal, pattern, transport)
          [] lang = "go" ->
               generateGoProject(name, nameSnake, namePascal, pattern, transport)
          [] lang = "rust" ->
               generateRustProject(name, nameSnake, namePascal, pattern, transport)
          [] OTHER -> [dirs |-> {}, files |-> <<>>]

(***************************************************************************)
(* What the generated server file declares.                                *)
(***************************************************************************)
\* The file the generator of `lang` writes the server into.
GeneratedServerPath(name, lang) ==
    CASE lang = "python"     -> Path(InDir(Root, toSnakeCase(name)), "server.py")
      [] lang = "typescript" -> Path(SrcDir, "index.ts")
      [] lang = "go"         -> Path(Root, "main.go")
      [] lang = "rust"       -> Path(SrcDir, "main.rs")

\* The places of the generated text that declare a capability of `kind`.
DeclarationShapes(kind) ==
    CASE kind = "tool" ->
           {"py_tool_async_def", "ts_tool_entry", "go_add_tool", "rs_tool_attr"}
      [] kind = "resource" -> {"py_resource", "ts_resource_entry"}
      [] kind = "prompt"   -> {"py_prompt_async_def", "ts_prompt_entry"}

\* The identifiers of `kind` the server text `content` declares, in text order.
EmittedIdentifiers(content, kind) == Captures(content, DeclarationShapes(kind))

\* The default literal of the greeting tool's optional parameter.
DefaultShapes ==
    {"py_param_default", "ts_param_default", "go_param_default", "rs_param_default"}


(***************************************************************************)
(* The language detector: one copy per command.                            *)
(***************************************************************************)
pathExists(files, path) == path \in DOMAIN files

\* commands/diagram.ts
detectLanguageDiagram(files) ==
    IF pathExists(files, Path(Root, "pyproject.toml")) THEN "python"
    ELSE IF pathExists(files, Path(Root, "package.json")) THEN "typescript"
    ELSE IF pathExists(files, Path(Root, "go.mod")) THEN "go"
    ELSE IF pathExists(files, Path(Root, "Cargo.toml")) THEN "rust"
    ELSE "null"

\* commands/validate.ts
detectLanguageValidate(files) ==
    IF pathExists(files, Path(Root, "pyproject.toml")) THEN "python"
    ELSE IF pathExists(files, Path(Root, "package.json")) THEN "typescript"
    ELSE IF pathExists(files, Path(Root, "go.mod")) THEN "go"
    ELSE IF pathExists(files, Path(Root, "Cargo.toml")) THEN "rust"
    ELSE "null"

\* A variant that tests go.mod before package.json
detectLanguageAddGoFirst(files) ==
    IF pathExists(files, Path(Root, "pyproject.toml")) THEN "python"
    ELSE IF pathExists(files, Path(Root, "go.mod")) THEN "go"
    ELSE IF pathExists(files, Path(Root, "package.json")) THEN "typescript"
    ELSE IF pathExists(files, Path(Root, "Cargo.toml")) THEN "rust"
    ELSE "null"

\* commands/add.ts
detectLanguageAdd(files) ==
    IF pathExists(files, Path(Root, "pyproject.toml")) THEN "python"
    ELSE IF pathExists(files, Path(Root, "package.json")) THEN "typescript"
    ELSE IF pathExists(files, Path(Root, "go.mod")) THEN "go"
    ELSE IF pathExists(files, Path(Root, "Cargo.toml")) THEN "rust"
    ELSE "null"

(***************************************************************************)
(* The static analyzer (commands/diagram.ts).                              *)
(***************************************************************************)
\* path.basename(projectPath).replace(/-/g, '_')
ProjectDirName(name) == ReplaceAll(name, "-", "_")

\* The first existing path of `paths`, or NullPath
RECURSIVE FirstExisting(_, _)
FirstExisting(files, paths) ==
    IF paths = <<>> THEN NullPath
    ELSE IF pathExists(files, Head(paths)) THEN Head(paths)
    ELSE FirstExisting(files, Tail(paths))

\* A variant that does not look in the directory named after the project
findFileNoProjectDir(files, name, filename, hasSubdir, subdir) ==
    LET paths == IF hasSubdir
                 THEN <<Path(subdir, filename), Path(Root, filename)>>
                 ELSE <<Path(Root, filename)>>
    IN  FirstExisting(files, paths)

\* findFile(basePath, filename, subdir?); hasSubdir tells whether subdir is given
findFile(files, name, filename, hasSubdir, subdir) ==
    LET paths == (IF hasSubdir
                  THEN <<Path(subdir, filename), Path(Root, filename)>>
                  ELSE <<Path(Root, filename)>>)
                 \o <<Path(InDir(Root, ProjectDirName(name)), filename)>>
    IN  FirstExisting(files, paths)

\* A variant that looks in src/ first, as analyzeTypeScript does
analyzePythonInSrc(files, name, analysis) ==
    LET serverFile == findFile(files, name, "server.py", TRUE, SrcDir)
    IN  IF serverFile = NullPath THEN analysis
        ELSE LET content == files[serverFile]
             IN  [analysis EXCEPT
                    !.tools = @ \o Captures(content, {"py_tool_async_def"}),
                    !.resources = @ \o Captures(content, {"py_resource"}),
                    !.prompts = @ \o Captures(content, {"py_prompt_async_def"})]

analyzePython(files, name, analysis) ==
    LET serverFile == findFile(files, name, "server.py", FALSE, Root)
    IN  IF serverFile = NullPath THEN analysis
        ELSE LET content == files[serverFile]
             IN  [analysis EXCEPT
                    !.tools = @ \o Captures(content, {"py_tool_async_def"}),
                    !.resources = @ \o Captures(content, {"py_resource"}),
                    !.prompts = @ \o Captures(content, {"py_prompt_async_def"})]

analyzeTypeScript(files, name, analysis) ==
    LET indexFile == findFile(files, name, "index.ts", TRUE, SrcDir)
    IN  IF indexFile = NullPath THEN analysis
        ELSE LET content == files[indexFile]
             IN  [analysis EXCEPT
                    !.tools = @ \o Captures(content, {"ts_server_tool_call"}),
                    !.resources = @ \o Captures(content, {"ts_server_resource_call"}),
                    !.prompts = @ \o Captures(content, {"ts_server_prompt_call"})]

analyzeGo(files, name, analysis) ==
    LET mainFile == Path(Root, "main.go")
    IN  IF ~pathExists(files, mainFile) THEN analysis
        ELSE [analysis EXCEPT
                !.tools = @ \o Captures(files[mainFile], {"go_add_tool", "go_new_tool"})]

analyzeRust(files, name, analysis) ==
    LET mainFile == Path(SrcDir, "main.rs")
    IN  IF ~pathExists(files, mainFile) THEN analysis
        ELSE [analysis EXCEPT
                !.tools = @ \o Captures(files[mainFile], {"rs_tool_attr"})]

analyzeProject(files, name, lang) ==
    LET analysis == [name |-> name, language |-> lang,
                     tools |-> <<>>, resources |-> <<>>, prompts |-> <<>>]
    IN  CASE lang = "python"     -> analyzePython(files, name, analysis)
          [] lang = "typescript" -> analyzeTypeScript(files, name, analysis)
          [] lang = "go"         -> analyzeGo(files, name, analysis)
          [] lang = "rust"       -> analyzeRust(files, name, analysis)
          [] OTHER               -> analysis

(***************************************************************************)
(* The structural validator (commands/validate.ts).  Each language's       *)
(* function is cut at its early return and before its entry-point check:   *)
(* ...Manifest, ...Deps, ...Entry.                                         *)
(***************************************************************************)
NewResult == [valid |-> TRUE, errors |-> <<>>, warnings |-> <<>>]

validateCommon(files, result) ==
    LET w1 == IF ~pathExists(files, Path(Root, "README.md"))
              THEN <<"Missing README.md">> ELSE <<>>
        w2 == IF ~pathExists(files, Path(Root, ".gitignore"))
              THEN <<"Missing .gitignore">> ELSE <<>>
        w3 == IF pathExists(files, Path(Root, ".env"))
              THEN <<".env file found - ensure it is in .gitignore">> ELSE <<>>
    IN  [result EXCEPT !.warnings = @ \o w1 \o w2 \o w3]

\* ---- python
validatePythonManifest(files, result) ==
    IF ~pathExists(files, Path(Root, "pyproject.toml"))
    THEN [result EXCEPT !.errors = Append(@, "Missing pyproject.toml"),
                        !.valid = FALSE]
    ELSE result

validatePythonDeps(files, result) ==
    LET pyproject == files[Path(Root, "pyproject.toml")]
        r1 == IF ~Includes(pyproject, "mcp") /\ ~Includes(pyproject, "fastmcp")
              THEN [result EXCEPT
                      !.errors = Append(@, "Missing MCP dependency (mcp or fastmcp)"),
                      !.valid = FALSE]
              ELSE result
    IN  IF ~Includes(pyproject, "requires-python")
        THEN [r1 EXCEPT
                !.warnings = Append(@, "Missing requires-python in pyproject.toml")]
        ELSE r1

\* const serverPaths = [...]
PythonServerPaths(name) ==
    << Path(InDir(Root, ProjectDirName(name)), "server.py"),
       Path(SrcDir, "server.py"),
       Path(Root, "server.py") >>

validatePythonEntry(files, name, result) ==
    LET serverPath == FirstExisting(files, PythonServerPaths(name))
    IN  IF serverPath = NullPath
        THEN [result EXCEPT !.errors = Append(@, "Missing server.py file"),
                            !.valid = FALSE]
        ELSE IF /\ ~Includes(files[serverPath], "@server.tool")
                /\ ~Includes(files[serverPath], ".tool(")
             THEN [result EXCEPT !.warnings = Append(@, "No tools defined in server")]
             ELSE result

\* ---- typescript
validateTypeScriptManifest(files, result) ==
    IF ~pathExists(files, Path(Root, "package.json"))
    THEN [result EXCEPT !.errors = Append(@, "Missing package.json"),
                        !.valid = FALSE]
    ELSE result

\* JSON.parse(...) throws on text that is not JSON
JsonParseThrows(content) ==
    \E i \in 1..Len(content) : content[i].shape = "json_syntax_error"

\* deps['@modelcontextprotocol/sdk'] of {...dependencies, ...devDependencies}
HasSdkDependency(packageJson) ==
    \E i \in 1..Len(packageJson) :
        /\ packageJson[i].shape \in {"json_dependency", "json_dev_dependency"}
        /\ packageJson[i].id = "@modelcontextprotocol/sdk"

validateTypeScriptDeps(files, result) ==
    LET packageJson == files[Path(Root, "package.json")]
        r1 == IF ~HasSdkDependency(packageJson)
              THEN [result EXCEPT
                      !.errors = Append(@, "Missing MCP dependency (@modelcontextprotocol/sdk)"),
                      !.valid = FALSE]
              ELSE result
    IN  IF ~pathExists(files, Path(Root, "tsconfig.json"))
        THEN [r1 EXCEPT !.warnings = Append(@, "Missing tsconfig.json")]
        ELSE r1

validateTypeScriptEntry(files, result) ==
    LET indexPath == Path(SrcDir, "index.ts")
    IN  IF ~pathExists(files, indexPath)
        THEN [result EXCEPT !.errors = Append(@, "Missing src/index.ts"),
                            !.valid = FALSE]
        ELSE IF /\ ~Includes(files[indexPath], "ListToolsRequestSchema")
                /\ ~Includes(files[indexPath], ".tool(")
             THEN [result EXCEPT !.warnings = Append(@, "No tools defined in server")]
             ELSE result

\* ---- go
\* A variant that reports the missing go.mod as a warning
validateGoManifestWarns(files, result) ==
    IF ~pathExists(files, Path(Root, "go.mod"))
    THEN [result EXCEPT !.warnings = Append(@, "Missing go.mod")]
    ELSE result

validateGoManifest(files, result) ==
    IF ~pathExists(files, Path(Root, "go.mod"))
    THEN [result EXCEPT !.errors = Append(@, "Missing go.mod"),
                        !.valid = FALSE]
    ELSE result

validateGoDeps(files, result) ==
    LET goMod == files[Path(Root, "go.mod")]
    IN  IF ~Includes(goMod, "mcp-go") /\ ~Includes(goMod, "go-sdk")
        THEN [result EXCEPT
                !.errors = Append(@, "Missing MCP dependency (mcp-go or go-sdk)"),
                !.valid = FALSE]
        ELSE result

\* A variant that records the error and leaves valid as it was
validateGoEntryKeepsValid(files, result) ==
    LET mainPath == Path(Root, "main.go")
    IN  IF ~pathExists(files, mainPath)
        THEN [result EXCEPT !.errors = Append(@, "Missing main.go")]
        ELSE IF ~Includes(files[mainPath], "AddTool")
             THEN [result EXCEPT !.warnings = Append(@, "No tools defined in server")]
             ELSE result

validateGoEntry(files, result) ==
    LET mainPath == Path(Root, "main.go")
    IN  IF ~pathExists(files, mainPath)
        THEN [result EXCEPT !.errors = Append(@, "Missing main.go"),
                            !.valid = FALSE]
        ELSE IF ~Includes(files[mainPath], "AddTool")
             THEN [result EXCEPT !.warnings = Append(@, "No tools defined in server")]
             ELSE result

\* ---- rust
validateRustManifest(files, result) ==
    IF ~pathExists(files, Path(Root, "Cargo.toml"))
    THEN [result EXCEPT !.errors = Append(@, "Missing Cargo.toml"),
                        !.valid = FALSE]
    ELSE result

\* A variant that looks for another crate name
validateRustDepsOtherCrate(files, result) ==
    LET cargo == files[Path(Root, "Cargo.toml")]
    IN  IF ~Includes(cargo, "mcp-rs")
        THEN [result EXCEPT !.errors = Append(@, "Missing MCP dependency (rmcp)"),
                            !.valid = FALSE]
        ELSE result

validateRustDeps(files, result) ==
    LET cargo == files[Path(Root, "Cargo.toml")]
    IN  IF ~Includes(cargo, "rmcp")
        THEN [result EXCEPT !.errors = Append(@, "Missing MCP dependency (rmcp)"),
                            !.valid = FALSE]
        ELSE result

validateRustEntry(files, result) ==
    LET mainPath == Path(SrcDir, "main.rs")
    IN  IF ~pathExists(files, mainPath)
        THEN [result EXCEPT !.errors = Append(@, "Missing src/main.rs"),
                            !.valid = FALSE]
        ELSE IF ~Includes(files[mainPath], "#[tool")
             THEN [result EXCEPT !.warnings = Append(@, "No tools defined in server")]
             ELSE result

\* ---- the switch of validateProject, step by step
ManifestPath(lang) ==
    CASE lang = "python"     -> Path(Root, "pyproject.toml")
      [] lang = "typescript" -> Path(Root, "package.json")
      [] lang = "go"         -> Path(Root, "go.mod")
      [] lang = "rust"       -> Path(Root, "Cargo.toml")

validateManifest(files, lang, result) ==
    CASE lang = "python"     -> validatePythonManifest(files, result)
      [] lang = "typescript" -> validateTypeScriptManifest(files, result)
      [] lang = "go"         -> validateGoManifest(files, result)
      [] lang = "rust"       -> validateRustManifest(files, result)

validateDeps(files, lang, result) ==
    CASE lang = "python"     -> validatePythonDeps(files, result)
      [] lang = "typescript" -> validateTypeScriptDeps(files, result)
      [] lang = "go"         -> validateGoDeps(files, result)
      [] lang = "rust"       -> validateRustDeps(files, result)

validateEntry(files, name, lang, result) ==
    CASE lang = "python"     -> validatePythonEntry(files, name, result)
      [] lang = "typescript" -> validateTypeScriptEntry(files, result)
      [] lang = "go"         -> validateGoEntry(files, result)
      [] lang = "rust"       -> validateRustEntry(files, result)

(***************************************************************************)
(* The template materializer (commands/new.ts, copyTemplateFiles).         *)
(* A template tree is a sequence of entries in readdir order; an entry is  *)
(* [name, isDir, content, children].                                       *)
(***************************************************************************)
StartsWith(s, p) ==
    /\ Len(p) <= Len(s)
    /\ \A i \in 1..Len(p) : s[i] = p[i]

\* A variant without the g flag: only the first occurrence is replaced
RECURSIVE ReplaceSubFirstOnly(_, _, _)
ReplaceSubFirstOnly(s, pat, val) ==
    IF s = <<>> THEN <<>>
    ELSE IF pat # <<>> /\ StartsWith(s, pat)
         THEN val \o SubSeq(s, Len(pat) + 1, Len(s))
         ELSE <<Head(s)>> \o ReplaceSubFirstOnly(Tail(s), pat, val)

\* s.replace(new RegExp(pat, 'g'), val), pat without metacharacters
RECURSIVE ReplaceSub(_, _, _)
ReplaceSub(s, pat, val) ==
    IF s = <<>> THEN <<>>
    ELSE IF pat # <<>> /\ StartsWith(s, pat)
         THEN val \o ReplaceSub(SubSeq(s, Len(pat) + 1, Len(s)), pat, val)
         ELSE <<Head(s)>> \o ReplaceSub(Tail(s), pat, val)

\* `__${key}__`
Marker(key) == <<"_", "_">> \o key \o <<"_", "_">>

\* The context object of newCommand, in insertion order: <<key, value>>.
TemplateContext(name, transport, pattern) ==
    << <<Chars("projectName"), name>>,
       <<Chars("projectNameSnake"), toSnakeCase(name)>>,
       <<Chars("projectNamePascal"), toPascalCase(name)>>,
       <<Chars("projectNameKebab"), toKebabCase(name)>>,
       <<Chars("transport"), Chars(transport)>>,
       <<Chars("pattern"), Chars(pattern)>> >>

\* for (const [key, value] of Object.entries(context)) targetName = ...
RECURSIVE SubstituteName(_, _)
SubstituteName(targetName, context) ==
    IF context = <<>> THEN targetName
    ELSE SubstituteName(
            ReplaceSub(targetName, Marker(Head(context)[1]), Head(context)[2]),
            Tail(context))

\* targetName.replace(/\.hbs$/, '')
StripHbs(targetName) ==
    LET hbs == Chars(".hbs")
        n   == Len(targetName)
    IN  IF n >= Len(hbs) /\ SubSeq(targetName, n - Len(hbs) + 1, n) = hbs
        THEN SubSeq(targetName, 1, n - Len(hbs))
        ELSE targetName

\* context[key], or the empty string for a key the context lacks
RECURSIVE ContextValue(_, _)
ContextValue(context, key) ==
    IF context = <<>> THEN <<>>
    ELSE IF Head(context)[1] = key THEN Head(context)[2]
    ELSE ContextValue(Tail(context), key)

\* Handlebars.compile(content)(context): each {{key}} becomes its value
RenderTemplate(content, context) ==
    [i \in 1..Len(content) |->
        IF content[i].shape = "hbs_var"
        THEN Tok("hbs_value", "", ContextValue(context, content[i].arg))
        ELSE content[i]]

RECURSIVE copyTemplateFiles(_, _, _, _)
copyTemplateFiles(entries, targetPath, context, acc) ==
    IF entries = <<>> THEN acc
    ELSE LET file       == Head(entries)
             targetName == StripHbs(SubstituteName(file.name, context))
             done ==
               IF file.isDir
               THEN copyTemplateFiles(file.children, InDir(targetPath, targetName),
                        context,
                        [acc EXCEPT !.dirs = @ \cup {InDir(targetPath, targetName)}])
               ELSE [acc EXCEPT !.files =
                        WriteFile(@, [dir |-> targetPath, file |-> targetName],
                                  RenderTemplate(file.content, context))]
         IN  copyTemplateFiles(Tail(entries), targetPath, context, done)

TemplateFile(name, content) ==
    [name |-> name, isDir |-> FALSE, content |-> content, children |-> <<>>]

TemplateDir(name, children) ==
    [name |-> name, isDir |-> TRUE, content |-> <<>>, children |-> children]

\* The template tree found under templates/<lang>/<pattern>, when there is one.
SampleTemplate ==
    << TemplateFile(Chars("README.md") \o Chars(".hbs"),
          << Tok("hbs_text", "title", NoArg),
             Tok("hbs_var", "", Chars("projectName")) >>),
       TemplateDir(Marker(Chars("projectNameSnake")),
          << TemplateFile(Chars("server.py") \o Chars(".hbs"),
                << Tok("hbs_var", "", Chars("projectNamePascal")),
                   Tok("py_tool_async_def", "hello", NoArg) >>) >>) >>

\* A template tree with one directory and one file, both named by a marker.
ConfTemplate ==
    << TemplateDir(Marker(Chars("projectNameSnake")),
          << TemplateFile(Marker(Chars("projectNameSnake"))
                             \o <<".", "c", "o", "n", "f">> \o Chars(".hbs"),
                << Tok("hbs_var", "", Chars("projectNameSnake")) >>) >>) >>

\* A template tree with nested directories, names with two markers, a name
\* with the same marker twice, and files without the .hbs suffix.
NestedTemplate ==
    << TemplateFile(Chars(".gitignore"), << Tok("hbs_text", ".env", NoArg) >>),
       TemplateDir(Chars("src"),
          << TemplateDir(Marker(Chars("projectNameKebab")),
                << TemplateFile(Marker(Chars("projectNamePascal"))
                                   \o Marker(Chars("pattern")) \o Chars(".hbs"),
                      << Tok("hbs_var", "", Chars("projectName")) >>),
                   TemplateFile(Marker(Chars("transport")) \o <<"-">>
                                   \o Marker(Chars("transport"))
                                   \o Chars(".hbs") \o Chars(".env"),
                      << Tok("hbs_var", "", Chars("transport")) >>) >>) >>) >>

\* The template trees the materializer is run on.
TemplateTrees == {SampleTemplate, ConfTemplate, NestedTemplate}

(***************************************************************************)
(* The diagram synthesizer (commands/diagram.ts).                          *)
(***************************************************************************)
\* One line of the mermaid text.
Line(kind, index, label) == [kind |-> kind, index |-> index, label |-> label]

\* A variant that opens and closes the subgraph of an empty list too
CapabilityLinesAlways(title, letter, ids) ==
    <<Line("subgraph", 0, <<title>>)>>
    \o [i \in 1..Len(ids) |-> Line("node", i - 1, <<letter, ids[i]>>)]
    \o <<Line("end", 0, title)>>
    \o [i \in 1..Len(ids) |-> Line("edge", i - 1, <<"SERVER", letter>>)]

\* The lines of one capability kind: nothing for an empty list.
CapabilityLines(title, letter, ids) ==
    IF Len(ids) > 0
    THEN <<Line("subgraph", 0, <<title>>)>>
         \o [i \in 1..Len(ids) |-> Line("node", i - 1, <<letter, ids[i]>>)]
         \o <<Line("end", 0, title)>>
         \o [i \in 1..Len(ids) |-> Line("edge", i - 1, <<"SERVER", letter>>)]
    ELSE <<>>

generateMermaidDiagram(analysis) ==
    << Line("graph", 0, "TB"),
       Line("subgraph", 0, <<analysis.name, "MCP Server">>),
       Line("direction", 0, "TB"),
       Line("server", 0, <<analysis.name, analysis.language>>) >>
    \o CapabilityLines("Tools", "T", analysis.tools)
    \o CapabilityLines("Resources", "R", analysis.resources)
    \o CapabilityLines("Prompts", "P", analysis.prompts)
    \o << Line("end", 0, "server"),
          Line("client", 0, "MCP Client"),
          Line("bidirectional", 0, <<"CLIENT", "SERVER">>) >>

(***************************************************************************)
(* The state of one run of the tool over one project directory.            *)
(***************************************************************************)
VARIABLES
    cmd,            \* the command running: new, validate, diagram, add,
                    \* or validateProject called on its own
    pc,             \* the place the command has reached
    name,           \* the basename of the project directory; the <name> of new
    opts,           \* the options of new
    templateExists, \* whether templates/<lang>/<pattern> exists
    template,       \* the entries of templates/<lang>/<pattern>, when it exists
    projectExists,  \* whether the project directory exists
    dirs,           \* the subdirectories of the project directory
    files,          \* the files of the project directory: path -> content
    generated,      \* how the directory was filled: "no", "procedural", "template"
    lang,           \* the detected language, "null" when none
    result,         \* the ValidationResult being built
    analysis,       \* the ProjectAnalysis
    exitCode,       \* the status the process ended with
    effects,        \* the external steps of this command, in order
    args,           \* the arguments of diagram and add
    output,         \* what this command printed or wrote outside the project
    initial,        \* the project directory when this command started
    breaker,        \* the documented CircuitBreaker object
    running,        \* how many calls of the wrapped function are in flight
    now,            \* the clock (datetime.now(), Date.now())
    log,            \* what the breaker did with each call, in order
    otherPc         \* the place a second, concurrent new <name> has reached;
                    \* "idle" when there is none

vars == <<cmd, pc, name, opts, templateExists, template, projectExists, dirs, files,
          generated, lang, result, analysis, exitCode, effects, args, output,
          initial, breaker, running, now, log, otherPc>>

world == <<name, opts, templateExists, template, args, breaker, running, now, log,
           otherPc>>

(***************************************************************************)
(* The circuit breaker of the resilience pattern's documentation, in its   *)
(* Python and TypeScript forms.  Both run the admission of call() as one   *)
(* step (under the asyncio lock; before the first await), then the wrapped *)
(* function, then _on_success or _on_failure as one step.                  *)
(***************************************************************************)
\* CircuitBreakerConfig
BreakerConfigs ==
    [failure_threshold : 1..MaxParam, success_threshold : 1..MaxParam,
     timeout : 1..MaxParam, half_open_max_calls : 1..MaxParam]

\* last_failure_time = None, lastFailureTime: null
NoTime == 0

\* CircuitBreaker.__init__ / constructor
NewBreaker(config) ==
    [config |-> config,
     state |-> "CLOSED",
     stats |-> [failures |-> 0, successes |-> 0, last_failure_time |-> NoTime,
                consecutive_successes |-> 0],
     half_open_calls |-> 0]

\* No breaker is in use.
NoBreaker ==
    /\ breaker = NewBreaker([failure_threshold |-> 1, success_threshold |-> 1,
                             timeout |-> 1, half_open_max_calls |-> 1])
    /\ running = 0
    /\ now = 1
    /\ log = <<>>

NameAlphabet == {"a", "B", "-", "_"}

HelloMcp == <<"h", "e", "l", "l", "o", "-", "m", "c", "p">>

MyProject == <<"M", "y", "P", "r", "o", "j", "e", "c", "t">>

FooBar == <<"f", "o", "o", "-", "b", "a", "r">>

\* Valid project names: non-empty, over letters, digits, '-' and '_'.
Names ==
    UNION {[1..n -> NameAlphabet] : n \in 1..MaxNameLen} \cup {HelloMcp, MyProject}

NoAnalysis == [name |-> <<>>, language |-> "null",
               tools |-> <<>>, resources |-> <<>>, prompts |-> <<>>]

NoArgs == [type |-> "none", output |-> "none", file |-> FALSE]

Snapshot(e, d, f) == [projectExists |-> e, dirs |-> d, files |-> f]

\* process.exit(code)
Exit(code) == pc' = "exited" /\ exitCode' = code

(***************************************************************************)
(* new <name>                                                              *)
(***************************************************************************)
NewOptions ==
    [lang : SUPPORTED_LANGUAGES \cup {"java"},
     pattern : SUPPORTED_PATTERNS \cup {"hexagonal"},
     transport : SUPPORTED_TRANSPORTS \cup {"websocket"},
     git : BOOLEAN, install : BOOLEAN]

\* The directories that may be in the way of new: none, an empty one, one
\* holding a file.
ExistingDirs ==
    { Snapshot(FALSE, {}, <<>>),
      Snapshot(TRUE, {}, <<>>),
      Snapshot(TRUE, {}, WriteFile(<<>>, Path(Root, "README.md"),
                                   <<Tok("text", "notes", NoArg)>>)) }

InitNew ==
    /\ cmd = "new"
    /\ pc = "n_inputs"
    /\ name \in Names
    /\ opts \in NewOptions
    /\ templateExists \in BOOLEAN
    /\ template = IF templateExists THEN SampleTemplate ELSE <<>>
    /\ \E d \in ExistingDirs :
          /\ projectExists = d.projectExists
          /\ dirs = d.dirs
          /\ files = d.files
          /\ initial = d
    /\ generated = "no"
    /\ lang = "null"
    /\ result = NewResult
    /\ analysis = NoAnalysis
    /\ exitCode = 0
    /\ effects = <<>>
    /\ args = NoArgs
    /\ output = <<>>
    /\ NoBreaker
    /\ otherPc = "idle"

\* The three input checks, before anything else is done.
InputsSupported(o) ==
    /\ o.lang \in SUPPORTED_LANGUAGES
    /\ o.pattern \in SUPPORTED_PATTERNS
    /\ o.transport \in SUPPORTED_TRANSPORTS

NewValidateInputs ==
    /\ cmd = "new" /\ pc = "n_inputs"
    /\ IF InputsSupported(opts)
       THEN pc' = "n_exists" /\ UNCHANGED exitCode
       ELSE Exit(1)
    /\ UNCHANGED <<cmd, world, projectExists, dirs, files, generated, lang,
                   result, analysis, effects, output, initial>>

\* A variant that goes on when the directory is already there
NewCheckExistsIgnored ==
    /\ cmd = "new" /\ pc = "n_exists"
    /\ pc' = "n_mkdir"
    /\ UNCHANGED <<cmd, world, projectExists, dirs, files, generated, lang,
                   result, analysis, exitCode, effects, output, initial>>

\* if (await fs.pathExists(projectPath)) ... process.exit(1)
NewCheckExists ==
    /\ cmd = "new" /\ pc = "n_exists"
    /\ IF projectExists
       THEN Exit(1)
       ELSE pc' = "n_mkdir" /\ UNCHANGED exitCode
    /\ UNCHANGED <<cmd, world, projectExists, dirs, files, generated, lang,
                   result, analysis, effects, output, initial>>

\* A variant that runs git init before the files are written
NewEnsureDirGitFirst ==
    /\ cmd = "new" /\ pc = "n_mkdir"
    /\ projectExists' = TRUE
    /\ effects' = effects \o <<"mkdir", "git init">>
    /\ pc' = "n_template"
    /\ UNCHANGED <<cmd, world, dirs, files, generated, lang, result, analysis,
                   exitCode, output, initial>>

\* await fs.ensureDir(projectPath)
NewEnsureDir ==
    /\ cmd = "new" /\ pc = "n_mkdir"
    /\ projectExists' = TRUE
    /\ effects' = Append(effects, "mkdir")
    /\ pc' = "n_template"
    /\ UNCHANGED <<cmd, world, dirs, files, generated, lang, result, analysis,
                   exitCode, output, initial>>

\* if (await fs.pathExists(templatePath)) copyTemplateFiles(...)
NewCopyTemplate ==
    /\ cmd = "new" /\ pc = "n_template"
    /\ templateExists
    /\ LET out == copyTemplateFiles(template, Root,
                     TemplateContext(name, opts.transport, opts.pattern),
                     [dirs |-> dirs, files |-> files])
       IN  dirs' = out.dirs /\ files' = out.files
    /\ generated' = "template"
    /\ effects' = Append(effects, "copyTemplateFiles")
    /\ pc' = "n_git"
    /\ UNCHANGED <<cmd, world, projectExists, lang, result, analysis, exitCode,
                   output, initial>>

\* A variant that generates whether or not the template directory exists
NewGenerateAlways ==
    /\ cmd = "new" /\ pc = "n_template"
    /\ LET out == generateProject(name, opts.lang, opts.pattern, opts.transport)
       IN  dirs' = dirs \cup out.dirs /\ files' = out.files @@ files
    /\ generated' = "procedural"
    /\ effects' = Append(effects, "generateProject")
    /\ pc' = "n_git"
    /\ UNCHANGED <<cmd, world, projectExists, lang, result, analysis, exitCode,
                   output, initial>>

\* else generateProject(projectPath, name, lang, pattern, transport)
NewGenerate ==
    /\ cmd = "new" /\ pc = "n_template"
    /\ ~templateExists
    /\ LET out == generateProject(name, opts.lang, opts.pattern, opts.transport)
       IN  dirs' = dirs \cup out.dirs /\ files' = out.files @@ files
    /\ generated' = "procedural"
    /\ effects' = Append(effects, "generateProject")
    /\ pc' = "n_git"
    /\ UNCHANGED <<cmd, world, projectExists, lang, result, analysis, exitCode,
                   output, initial>>

\* if (git) { git init; git add .; git commit }
NewGit ==
    /\ cmd = "new" /\ pc \in {"n_git", "n_git_add", "n_git_commit"}
    /\ IF ~opts.git
       THEN pc' = "n_install" /\ UNCHANGED effects
       ELSE CASE pc = "n_git" ->
                   effects' = Append(effects, "git init") /\ pc' = "n_git_add"
              [] pc = "n_git_add" ->
                   effects' = Append(effects, "git add") /\ pc' = "n_git_commit"
              [] pc = "n_git_commit" ->
                   effects' = Append(effects, "git commit") /\ pc' = "n_install"
    /\ UNCHANGED <<cmd, world, projectExists, dirs, files, generated, lang,
                   result, analysis, exitCode, output, initial>>

\* if (install) installDependencies(projectPath, lang); then the closing notes
NewInstall ==
    /\ cmd = "new" /\ pc = "n_install"
    /\ effects' = IF opts.install THEN Append(effects, "install") ELSE effects
    /\ pc' = "done"
    /\ exitCode' = 0
    /\ UNCHANGED <<cmd, world, projectExists, dirs, files, generated, lang,
                   result, analysis, output, initial>>

\* A file-system or subprocess error inside the try block: caught, exit 1.
NewFail ==
    /\ cmd = "new"
    /\ \/ pc \in {"n_mkdir", "n_template"}
       \/ pc \in {"n_git", "n_git_add", "n_git_commit"} /\ opts.git
       \/ pc = "n_install" /\ opts.install
    /\ Exit(1)
    /\ UNCHANGED <<cmd, world, projectExists, dirs, files, generated, lang,
                   result, analysis, effects, output, initial>>

(***************************************************************************)
(* validate, diagram, add: the path check and the language detection.      *)
(***************************************************************************)
SUPPORTED_TYPES == {"tool", "resource", "prompt"}

\* add only: if (!SUPPORTED_TYPES.includes(type)) ... process.exit(1)
\* console.error(chalk.red(text)), spinner.fail(text)
Report(text) == [to |-> "stderr", text |-> text]

\* console.log(chalk.dim(text))
Hint(text) == [to |-> "console", text |-> text]

AddCheckType ==
    /\ cmd = "add" /\ pc = "a_type"
    /\ \E type \in SUPPORTED_TYPES \cup {"widget"} :
          /\ args' = [args EXCEPT !.type = type]
          /\ IF type \in SUPPORTED_TYPES
             THEN pc' = "c_path" /\ UNCHANGED <<exitCode, output>>
             ELSE /\ output' = <<Report("Unsupported type"), Hint("Supported types")>>
                  /\ Exit(1)
    /\ UNCHANGED <<breaker, running, now, log, otherPc>>
    /\ UNCHANGED <<cmd, name, opts, templateExists, template, projectExists,
                   dirs, files, generated, lang, result, analysis, effects,
                   initial>>

\* if (!(await fs.pathExists(projectPath))) ... process.exit(1)
CheckPath ==
    /\ cmd \in {"validate", "diagram", "add"} /\ pc = "c_path"
    /\ IF projectExists
       THEN pc' = "c_detect" /\ UNCHANGED <<exitCode, output>>
       ELSE /\ output' = <<Report("path not found")>>
            /\ Exit(1)
    /\ UNCHANGED <<cmd, world, projectExists, dirs, files, generated, lang,
                   result, analysis, effects, initial>>

DetectedBy(c, f) ==
    CASE c = "diagram"  -> detectLanguageDiagram(f)
      [] c = "validate" -> detectLanguageValidate(f)
      [] c = "add"      -> detectLanguageAdd(f)

\* const lang = await detectLanguage(projectPath); if (!lang) process.exit(1)
\* A variant that takes a directory without manifest for a Python project
DetectLanguageAssumesPython ==
    /\ cmd \in {"validate", "diagram", "add"} /\ pc = "c_detect"
    /\ lang' = IF DetectedBy(cmd, files) = "null" THEN "python"
               ELSE DetectedBy(cmd, files)
    /\ pc' = CASE cmd = "validate" -> "v_common"
               [] cmd = "diagram"  -> "d_analyze"
               [] cmd = "add"      -> "a_snippet"
    /\ UNCHANGED <<cmd, world, projectExists, dirs, files, generated, result,
                   analysis, exitCode, effects, output, initial>>

DetectLanguage ==
    /\ cmd \in {"validate", "diagram", "add"} /\ pc = "c_detect"
    /\ lang' = DetectedBy(cmd, files)
    /\ IF lang' = "null"
       THEN /\ output' = IF cmd = "add"
                         THEN <<Report("Could not detect project language"),
                                Hint("Make sure you are in an MCP server project directory")>>
                         ELSE <<Report("Could not detect project language")>>
            /\ Exit(1)
       ELSE /\ pc' = CASE cmd = "validate" -> "v_common"
                       [] cmd = "diagram"  -> "d_analyze"
                       [] cmd = "add"      -> "a_snippet"
            /\ UNCHANGED <<exitCode, output>>
    /\ UNCHANGED <<cmd, world, projectExists, dirs, files, generated, result,
                   analysis, effects, initial>>

(***************************************************************************)
(* validateProject, step by step, and the report of validateCommand.       *)
(***************************************************************************)
Validating == cmd \in {"validate", "validateProject"}

ValidateCommon ==
    /\ Validating /\ pc = "v_common"
    /\ result' = validateCommon(files, NewResult)
    /\ pc' = "v_manifest"
    /\ UNCHANGED <<cmd, world, projectExists, dirs, files, generated, lang,
                   analysis, exitCode, effects, output, initial>>

\* validateProject has returned its result
Returned == IF cmd = "validate" THEN "v_report" ELSE "returned"

ValidateManifest ==
    /\ Validating /\ pc = "v_manifest"
    /\ result' = validateManifest(files, lang, result)
    /\ pc' = IF pathExists(files, ManifestPath(lang)) THEN "v_deps" ELSE Returned
    /\ UNCHANGED <<cmd, world, projectExists, dirs, files, generated, lang,
                   analysis, exitCode, effects, output, initial>>

\* The manifest is read; package.json that does not parse makes
\* validateProject throw, and validateCommand catch and exit.
ValidateDeps ==
    /\ Validating /\ pc = "v_deps"
    /\ IF lang = "typescript" /\ JsonParseThrows(files[ManifestPath(lang)])
       THEN /\ UNCHANGED result
            /\ IF cmd = "validate"
               THEN Exit(1)
               ELSE pc' = "threw" /\ UNCHANGED exitCode
       ELSE /\ result' = validateDeps(files, lang, result)
            /\ pc' = "v_entry"
            /\ UNCHANGED exitCode
    /\ UNCHANGED <<cmd, world, projectExists, dirs, files, generated, lang,
                   analysis, effects, output, initial>>

ValidateEntry ==
    /\ Validating /\ pc = "v_entry"
    /\ result' = validateEntry(files, name, lang, result)
    /\ pc' = Returned
    /\ UNCHANGED <<cmd, world, projectExists, dirs, files, generated, lang,
                   analysis, exitCode, effects, output, initial>>

\* A variant that ends with status 1 on warnings as well
ValidateReportWarningsFail ==
    /\ cmd = "validate" /\ pc = "v_report"
    /\ output' = IF result.valid /\ Len(result.warnings) = 0
                 THEN <<"All checks passed!">>
                 ELSE result.errors \o result.warnings
    /\ IF ~(result.valid /\ Len(result.warnings) = 0)
       THEN Exit(1)
       ELSE pc' = "done" /\ exitCode' = 0
    /\ UNCHANGED <<cmd, world, projectExists, dirs, files, generated, lang,
                   result, analysis, effects, initial>>

\* validateCommand prints the lists; if (result.errors.length > 0) exit(1)
ValidateReport ==
    /\ cmd = "validate" /\ pc = "v_report"
    /\ output' = IF result.valid /\ Len(result.warnings) = 0
                 THEN <<"All checks passed!">>
                 ELSE result.errors \o result.warnings
    /\ IF ~(result.valid /\ Len(result.warnings) = 0) /\ Len(result.errors) > 0
       THEN Exit(1)
       ELSE pc' = "done" /\ exitCode' = 0
    /\ UNCHANGED <<cmd, world, projectExists, dirs, files, generated, lang,
                   result, analysis, effects, initial>>

(***************************************************************************)
(* diagram: analysis, rendering, output.                                   *)
(***************************************************************************)
DiagramAnalyze ==
    /\ cmd = "diagram" /\ pc = "d_analyze"
    /\ analysis' = analyzeProject(files, name, lang)
    /\ pc' = "d_output"
    /\ UNCHANGED <<cmd, world, projectExists, dirs, files, generated, lang,
                   result, exitCode, effects, output, initial>>

\* if (output === 'mermaid' || !file) print, else fs.writeFile(file, text)
DiagramOutput ==
    /\ cmd = "diagram" /\ pc = "d_output"
    /\ \E o \in {"mermaid", "svg", "png"}, f \in BOOLEAN :
          /\ args' = [args EXCEPT !.output = o, !.file = f]
          /\ LET mermaidCode == generateMermaidDiagram(analysis)
             IN  IF o = "mermaid" \/ ~f
                 THEN /\ output' = <<[to |-> "console", text |-> mermaidCode]>>
                      /\ UNCHANGED effects
                 ELSE /\ output' = <<[to |-> "file", text |-> mermaidCode]>>
                      /\ effects' = Append(effects, "write diagram")
    /\ pc' = "done"
    /\ exitCode' = 0
    /\ UNCHANGED <<breaker, running, now, log, otherPc>>
    /\ UNCHANGED <<cmd, name, opts, templateExists, template, projectExists,
                   dirs, files, generated, lang, result, analysis, initial>>

(***************************************************************************)
(* add: the snippet is printed; no file is changed.                        *)
(***************************************************************************)
AddSnippet ==
    /\ cmd = "add" /\ pc = "a_snippet"
    /\ output' = <<[to |-> "console", snippet |-> <<lang, args.type>>]>>
    /\ pc' = "done"
    /\ exitCode' = 0
    /\ UNCHANGED <<cmd, world, projectExists, dirs, files, generated, lang,
                   result, analysis, effects, initial>>

(***************************************************************************)
(* Running a further command on the project new has just created.          *)
(***************************************************************************)
StartPc(c) == IF c = "add" THEN "a_type" ELSE "c_path"

NextCommand ==
    /\ cmd = "new" /\ pc = "done"
    /\ \E c \in {"validate", "diagram", "add"} :
          /\ cmd' = c
          /\ pc' = StartPc(c)
    /\ lang' = "null"
    /\ result' = NewResult
    /\ analysis' = NoAnalysis
    /\ exitCode' = 0
    /\ effects' = <<>>
    /\ output' = <<>>
    /\ initial' = Snapshot(projectExists, dirs, files)
    /\ UNCHANGED <<world, projectExists, dirs, files, generated>>

(***************************************************************************)
(* Project directories that exist before the tool runs.                    *)
(***************************************************************************)
PlainText == <<Tok("text", "", NoArg)>>

\* The files a directory may hold, each with the contents it may have.
CandidateFiles(n) ==
    LET pkg == ProjectDirName(n)
        F(path, content) == [path |-> path, content |-> content]
    IN  { F(Path(Root, "pyproject.toml"),
            << Tok("toml_project_name", "", pkg),
               Tok("toml_requires_python", ">=3.11", NoArg),
               Tok("toml_dep_mcp", "mcp>=1.0.0", NoArg) >>),
          F(Path(Root, "pyproject.toml"),
            << Tok("toml_project_name", "", pkg),
               Tok("toml_requires_python", ">=3.11", NoArg) >>),
          F(Path(Root, "pyproject.toml"),
            << Tok("toml_project_name", "", pkg),
               Tok("toml_dep_fastmcp", "fastmcp>=2.0.0", NoArg) >>),
          F(Path(Root, "package.json"),
            << Tok("json_name", "", n),
               Tok("json_dependency", "@modelcontextprotocol/sdk", NoArg) >>),
          F(Path(Root, "package.json"),
            << Tok("json_name", "", n),
               Tok("json_dev_dependency", "typescript", NoArg) >>),
          F(Path(Root, "package.json"),
            << Tok("json_syntax_error", "", NoArg) >>),
          F(Path(Root, "go.mod"),
            << Tok("gomod_module", "", pkg),
               Tok("gomod_require_mcp_go", "v0.6.0", NoArg) >>),
          F(Path(Root, "go.mod"),
            << Tok("gomod_module", "", pkg) >>),
          F(Path(Root, "Cargo.toml"),
            << Tok("cargo_package_name", "", pkg),
               Tok("cargo_dep_rmcp", "0.8", NoArg) >>),
          F(Path(Root, "Cargo.toml"),
            << Tok("cargo_package_name", "", pkg) >>),
          F(Path(Root, "README.md"), PlainText),
          F(Path(Root, ".gitignore"), PlainText),
          F(Path(Root, ".env"), PlainText),
          F(Path(Root, "tsconfig.json"), PlainText),
          F(Path(InDir(Root, pkg), "server.py"),
            << Tok("py_tool_async_def", "search", NoArg) >>),
          F(Path(InDir(Root, pkg), "server.py"), PlainText),
          F(Path(SrcDir, "server.py"),
            << Tok("py_tool_async_def", "fetch", NoArg) >>),
          F(Path(SrcDir, "server.py"), PlainText),
          F(Path(Root, "server.py"),
            << Tok("py_tool_async_def", "lookup", NoArg) >>),
          F(Path(Root, "server.py"), PlainText),
          F(Path(SrcDir, "index.ts"),
            << Tok("ts_import_schemas", "", NoArg),
               Tok("ts_list_tools_handler", "", NoArg),
               Tok("ts_tool_entry", "search", NoArg) >>),
          F(Path(SrcDir, "index.ts"), PlainText),
          F(Path(Root, "main.go"),
            << Tok("go_add_tool", "search", NoArg) >>),
          F(Path(Root, "main.go"), PlainText),
          F(Path(SrcDir, "main.rs"),
            << Tok("rs_tool_attr", "search", NoArg) >>),
          F(Path(SrcDir, "main.rs"), PlainText) }

\* The file maps of at most k candidate files.
RECURSIVE FileMaps(_, _)
FileMaps(n, k) ==
    IF k = 0 THEN {<<>>}
    ELSE LET smaller == FileMaps(n, k - 1)
         IN  smaller \cup
             { WriteFile(m, c.path, c.content) :
                 <<m, c>> \in { x \in smaller \X CandidateFiles(n) :
                                  ~pathExists(x[1], x[2].path) } }

\* Every set of manifest files, each with its dependency declared.
RECURSIVE ManifestMaps(_, _)
ManifestMaps(n, langs) ==
    IF langs = <<>> THEN {<<>>}
    ELSE LET rest == ManifestMaps(n, Tail(langs))
             manifest == CHOOSE c \in CandidateFiles(n) :
                            /\ c.path = ManifestPath(Head(langs))
                            /\ c.content[Len(c.content)].shape \in
                                 {"toml_dep_mcp", "json_dependency",
                                  "gomod_require_mcp_go", "cargo_dep_rmcp"}
         IN  rest \cup {WriteFile(m, manifest.path, manifest.content) : m \in rest}

\* The directories validate, diagram and add are run on.
InspectFiles(n) ==
    FileMaps(n, MaxFiles)
        \cup ManifestMaps(n, <<"python", "typescript", "go", "rust">>)

InspectNames == {HelloMcp, MyProject}

\* The subdirectories that hold the files of a file map
DirsOf(m) == {p.dir : p \in DOMAIN m} \ {Root}

InitInspect ==
    /\ name \in InspectNames
    /\ \/ /\ projectExists = TRUE
          /\ files \in InspectFiles(name)
          /\ \/ /\ cmd \in {"validate", "diagram", "add"}
                /\ pc = StartPc(cmd)
                /\ lang = "null"
             \/ /\ cmd = "validateProject"
                /\ pc = "v_common"
                /\ lang \in SUPPORTED_LANGUAGES
       \/ /\ projectExists = FALSE
          /\ files = <<>>
          /\ cmd \in {"validate", "diagram", "add"}
          /\ pc = StartPc(cmd)
          /\ lang = "null"
    /\ dirs = DirsOf(files)
    /\ initial = Snapshot(projectExists, dirs, files)
    /\ opts = [lang |-> "python", pattern |-> "basic", transport |-> "stdio",
               git |-> TRUE, install |-> TRUE]
    /\ templateExists = FALSE
    /\ template = <<>>
    /\ generated = "no"
    /\ result = NewResult
    /\ analysis = NoAnalysis
    /\ exitCode = 0
    /\ effects = <<>>
    /\ args = NoArgs
    /\ output = <<>>
    /\ NoBreaker
    /\ otherPc = "idle"

(***************************************************************************)
(* The specifications.                                                     *)
(***************************************************************************)
InspectStep ==
    \/ AddCheckType
    \/ CheckPath
    \/ DetectLanguage
    \/ ValidateCommon
    \/ ValidateManifest
    \/ ValidateDeps
    \/ ValidateEntry
    \/ ValidateReport
    \/ DiagramAnalyze
    \/ DiagramOutput
    \/ AddSnippet

\* new, and then any of the other commands on the directory it made
Next ==
    \/ NewValidateInputs
    \/ NewCheckExists
    \/ NewEnsureDir
    \/ NewCopyTemplate
    \/ NewGenerate
    \/ NewGit
    \/ NewInstall
    \/ NewFail
    \/ NextCommand
    \/ InspectStep

Spec == InitNew /\ [][Next]_vars

(***************************************************************************)
(* Two new <name> for the same name at once: this one and a second one     *)
(* that runs the same code on the same directory with the same options.    *)
(***************************************************************************)
InitNewRace ==
    /\ cmd = "new"
    /\ pc = "n_inputs"
    /\ name \in {HelloMcp, FooBar}
    /\ opts \in [lang : {"python", "typescript"}, pattern : {"basic"},
                 transport : {"stdio"}, git : BOOLEAN, install : BOOLEAN]
    /\ templateExists \in BOOLEAN
    /\ template = IF templateExists THEN SampleTemplate ELSE <<>>
    /\ \E d \in ExistingDirs :
          /\ projectExists = d.projectExists
          /\ dirs = d.dirs
          /\ files = d.files
          /\ initial = d
    /\ generated = "no"
    /\ lang = "null"
    /\ result = NewResult
    /\ analysis = NoAnalysis
    /\ exitCode = 0
    /\ effects = <<>>
    /\ args = NoArgs
    /\ output = <<>>
    /\ NoBreaker
    /\ otherPc = "o_exists"

\* What a step of the second invocation leaves alone, the directory apart
thisNew == <<cmd, pc, name, opts, templateExists, template, generated, lang,
             result, analysis, exitCode, effects, args, output, initial,
             breaker, running, now, log>>

\* if (await fs.pathExists(projectPath)) ... process.exit(1), in the second
\* invocation
OtherCheckExists ==
    /\ cmd = "new" /\ otherPc = "o_exists"
    /\ otherPc' = IF projectExists THEN "o_refused" ELSE "o_mkdir"
    /\ UNCHANGED <<thisNew, projectExists, dirs, files>>

\* await fs.ensureDir(projectPath), in the second invocation
OtherEnsureDir ==
    /\ cmd = "new" /\ otherPc = "o_mkdir"
    /\ projectExists' = TRUE
    /\ otherPc' = "o_template"
    /\ UNCHANGED <<thisNew, dirs, files>>

\* copyTemplateFiles or generateProject, in the second invocation
OtherGenerate ==
    /\ cmd = "new" /\ otherPc = "o_template"
    /\ LET out == IF templateExists
                  THEN copyTemplateFiles(template, Root,
                           TemplateContext(name, opts.transport, opts.pattern),
                           [dirs |-> dirs, files |-> files])
                  ELSE LET g == generateProject(name, opts.lang, opts.pattern,
                                                opts.transport)
                       IN  [dirs |-> dirs \cup g.dirs, files |-> g.files @@ files]
       IN  dirs' = out.dirs /\ files' = out.files
    /\ otherPc' = "o_generated"
    /\ UNCHANGED <<thisNew, projectExists>>

\* git, the installation and the closing notes of the second invocation
OtherFinish ==
    /\ cmd = "new" /\ otherPc = "o_generated"
    /\ otherPc' = "o_done"
    /\ UNCHANGED <<thisNew, projectExists, dirs, files>>

\* A file-system error inside the try block of the second invocation
OtherFail ==
    /\ cmd = "new" /\ otherPc \in {"o_mkdir", "o_template"}
    /\ otherPc' = "o_failed"
    /\ UNCHANGED <<thisNew, projectExists, dirs, files>>

RaceStep ==
    \/ NewValidateInputs
    \/ NewCheckExists
    \/ NewEnsureDir
    \/ NewCopyTemplate
    \/ NewGenerate
    \/ NewGit
    \/ NewInstall
    \/ NewFail
    \/ OtherCheckExists
    \/ OtherEnsureDir
    \/ OtherGenerate
    \/ OtherFinish
    \/ OtherFail

SpecNewRace == InitNewRace /\ [][RaceStep]_vars

\* validate, diagram and add (and validateProject alone) on a directory
\* that was there before
SpecInspect == InitInspect /\ [][InspectStep]_vars

\* new from the point where the project directory has been created, with a
\* template directory holding one of the template trees.
InitMaterialize ==
    /\ cmd = "new"
    /\ pc = "n_template"
    /\ name \in Names \cup {FooBar}
    /\ opts \in [lang : {"python", "typescript"}, pattern : SUPPORTED_PATTERNS,
                 transport : SUPPORTED_TRANSPORTS, git : BOOLEAN,
                 install : BOOLEAN]
    /\ templateExists = TRUE
    /\ template \in TemplateTrees
    /\ projectExists = TRUE
    /\ dirs = {}
    /\ files = <<>>
    /\ initial = Snapshot(FALSE, {}, <<>>)
    /\ generated = "no"
    /\ lang = "null"
    /\ result = NewResult
    /\ analysis = NoAnalysis
    /\ exitCode = 0
    /\ effects = <<"mkdir">>
    /\ args = NoArgs
    /\ output = <<>>
    /\ NoBreaker
    /\ otherPc = "idle"

MaterializeStep ==
    \/ NewCopyTemplate
    \/ NewGit
    \/ NewInstall
    \/ NewFail

SpecMaterialize == InitMaterialize /\ [][MaterializeStep]_vars

\* A template tree with a directory whose name ends in .hbs.
HbsDirTemplate ==
    << TemplateDir(Chars("src") \o Chars(".hbs"),
          << TemplateFile(Chars("README.md") \o Chars(".hbs"),
                << Tok("hbs_var", "", Chars("projectName")) >>) >>),
       TemplateFile(Chars(".gitignore"), << Tok("hbs_text", ".env", NoArg) >>) >>

\* A template tree with a file and a directory named after the project.
NamedTemplate ==
    << TemplateFile(Marker(Chars("projectName")) \o <<".", "m", "d">> \o Chars(".hbs"),
          << Tok("hbs_var", "", Chars("projectName")) >>),
       TemplateDir(Marker(Chars("projectName")),
          << TemplateFile(Chars("server.py") \o Chars(".hbs"),
                << Tok("hbs_var", "", Chars("projectNamePascal")) >>) >>) >>

\* Project names that spell a marker of the context, among others.
MarkerNames == {Marker(Chars("pattern")), Marker(Chars("transport"))}

\* new from the point where the project directory has been created, for
\* names and template trees of the less usual kinds as well.
InitMaterializeAny ==
    /\ cmd = "new"
    /\ pc = "n_template"
    /\ name \in {HelloMcp, FooBar} \cup MarkerNames
    /\ opts \in [lang : {"python", "typescript"}, pattern : SUPPORTED_PATTERNS,
                 transport : SUPPORTED_TRANSPORTS, git : BOOLEAN,
                 install : BOOLEAN]
    /\ templateExists = TRUE
    /\ template \in {ConfTemplate, HbsDirTemplate, NamedTemplate}
    /\ projectExists = TRUE
    /\ dirs = {}
    /\ files = <<>>
    /\ initial = Snapshot(FALSE, {}, <<>>)
    /\ generated = "no"
    /\ lang = "null"
    /\ result = NewResult
    /\ analysis = NoAnalysis
    /\ exitCode = 0
    /\ effects = <<"mkdir">>
    /\ args = NoArgs
    /\ output = <<>>
    /\ NoBreaker
    /\ otherPc = "idle"

SpecMaterializeAny == InitMaterializeAny /\ [][MaterializeStep]_vars

\* The sequences over `ids` of length at most n.
SeqsUpTo(ids, n) == UNION {[1..k -> ids] : k \in 0..n}

\* A server file that declares the given tools, resources and prompts, in the
\* form the analyzer of `l` reads.
ServerText(l, tools, resources, prompts) ==
    LET decl(shape, ids) == [i \in 1..Len(ids) |-> Tok(shape, ids[i], NoArg)]
    IN  CASE l = "python" ->
               decl("py_tool_async_def", tools) \o decl("py_resource", resources)
                   \o decl("py_prompt_async_def", prompts)
          [] l = "typescript" ->
               decl("ts_server_tool_call", tools)
                   \o decl("ts_server_resource_call", resources)
                   \o decl("ts_server_prompt_call", prompts)
          [] l = "go"   -> decl("go_add_tool", tools)
          [] l = "rust" -> decl("rs_tool_attr", tools)

\* The directories diagram is run on: the manifest of a language and a
\* server file with any lists of capabilities the language's analyzer reads.
DiagramProjects(n) ==
    LET manifest(l) == CHOOSE m \in ManifestMaps(n, <<l>>) : m # <<>>
        entry(l) == IF l = "python"
                    THEN Path(InDir(Root, ProjectDirName(n)), "server.py")
                    ELSE GeneratedServerPath(n, l)
        project(l, t, r, p) ==
            WriteFile(manifest(l), entry(l), ServerText(l, t, r, p))
    IN  { project(l, t, r, p) :
            l \in {"python", "typescript"},
            t \in SeqsUpTo({"hello", "add"}, MaxCaps),
            r \in SeqsUpTo({"config://settings"}, MaxCaps),
            p \in SeqsUpTo({"system_prompt"}, MaxCaps) }
        \cup
        { project(l, t, <<>>, <<>>) :
            l \in {"go", "rust"}, t \in SeqsUpTo({"hello", "add"}, MaxCaps) }

InitDiagram ==
    /\ cmd = "diagram"
    /\ pc = StartPc(cmd)
    /\ name = HelloMcp
    /\ projectExists = TRUE
    /\ files \in DiagramProjects(name)
    /\ dirs = DirsOf(files)
    /\ initial = Snapshot(projectExists, dirs, files)
    /\ opts = [lang |-> "python", pattern |-> "basic", transport |-> "stdio",
               git |-> TRUE, install |-> TRUE]
    /\ templateExists = FALSE
    /\ template = <<>>
    /\ generated = "no"
    /\ lang = "null"
    /\ result = NewResult
    /\ analysis = NoAnalysis
    /\ exitCode = 0
    /\ effects = <<>>
    /\ args = NoArgs
    /\ output = <<>>
    /\ NoBreaker
    /\ otherPc = "idle"

DiagramStep ==
    \/ CheckPath
    \/ DetectLanguage
    \/ DiagramAnalyze
    \/ DiagramOutput

\* diagram on a directory whose server file declares capabilities
SpecDiagram == InitDiagram /\ [][DiagramStep]_vars

(***************************************************************************)
(* The name conversions on their own, as the unit tests call them.         *)
(***************************************************************************)
\* Words: a lowercase letter followed by lowercase letters and digits.
Words ==
    { <<"a">>, <<"m", "y">>, <<"p", "2">>, <<"m", "c", "p">>,
      <<"p", "r", "o", "j", "e", "c", "t">> }

WordLists == UNION {[1..n -> Words] : n \in 1..MaxWords}

\* The words joined by sep
RECURSIVE JoinWith(_, _)
JoinWith(ws, sep) ==
    IF Len(ws) = 1 THEN Head(ws)
    ELSE Head(ws) \o <<sep>> \o JoinWith(Tail(ws), sep)

KebabForm(ws) == JoinWith(ws, "-")

SnakeForm(ws) == JoinWith(ws, "_")

\* Each word with its first letter in upper case, concatenated
RECURSIVE PascalForm(_)
PascalForm(ws) ==
    IF ws = <<>> THEN <<>>
    ELSE <<UpperChar(Head(ws)[1])>> \o Tail(Head(ws)) \o PascalForm(Tail(ws))

ConvAlphabet == {"a", "B", "2", "-", "_"}

\* The names the conversions are applied to: word lists in the three forms,
\* and every non-empty string over ConvAlphabet up to MaxConvLen.
ConvNames ==
    {KebabForm(ws) : ws \in WordLists}
        \cup {SnakeForm(ws) : ws \in WordLists}
        \cup {PascalForm(ws) : ws \in WordLists}
        \cup UNION {[1..n -> ConvAlphabet] : n \in 1..MaxConvLen}

\* projectNameSnake, projectNamePascal, projectNameKebab of str
NameForms(str) ==
    [of |-> str, snake |-> toSnakeCase(str), pascal |-> toPascalCase(str),
     kebab |-> toKebabCase(str)]

InitNaming ==
    /\ cmd = "convert"
    /\ pc = "s_convert"
    /\ name \in ConvNames
    /\ opts = [lang |-> "python", pattern |-> "basic", transport |-> "stdio",
               git |-> TRUE, install |-> TRUE]
    /\ templateExists = FALSE
    /\ template = <<>>
    /\ projectExists = FALSE
    /\ dirs = {}
    /\ files = <<>>
    /\ initial = Snapshot(projectExists, dirs, files)
    /\ generated = "no"
    /\ lang = "null"
    /\ result = NewResult
    /\ analysis = NoAnalysis
    /\ exitCode = 0
    /\ effects = <<>>
    /\ args = NoArgs
    /\ output = <<>>
    /\ NoBreaker
    /\ otherPc = "idle"

\* The three conversions of the name
ConvertName ==
    /\ cmd = "convert" /\ pc = "s_convert"
    /\ output' = <<NameForms(name)>>
    /\ pc' = "s_again"
    /\ UNCHANGED <<cmd, world, projectExists, dirs, files, generated, lang,
                   result, analysis, exitCode, effects, initial>>

\* The three conversions of each converted form: of the snake form, of the
\* Pascal form and of the kebab form, in this order
ConvertAgain ==
    /\ cmd = "convert" /\ pc = "s_again"
    /\ output' = output \o <<NameForms(output[1].snake),
                              NameForms(output[1].pascal),
                              NameForms(output[1].kebab)>>
    /\ pc' = "done"
    /\ UNCHANGED <<cmd, world, projectExists, dirs, files, generated, lang,
                   result, analysis, exitCode, effects, initial>>

NamingStep == ConvertName \/ ConvertAgain

SpecNaming == InitNaming /\ [][NamingStep]_vars

(***************************************************************************)
(* The circuit breaker under concurrent calls.                             *)
(***************************************************************************)
\* _check_state_transition / checkStateTransition at instant t
checkStateTransition(b, t) ==
    IF /\ b.state = "OPEN"
       /\ b.stats.last_failure_time # NoTime
       /\ t - b.stats.last_failure_time >= b.config.timeout
    THEN [b EXCEPT !.state = "HALF_OPEN",
                   !.half_open_calls = 0,
                   !.stats.consecutive_successes = 0]
    ELSE b

\* A variant that lets a call through whenever the breaker is not open
RejectsOpenOnly(b) == b.state = "OPEN"

\* call() raises CircuitOpenError in state b
Rejects(b) ==
    \/ b.state = "OPEN"
    \/ b.state = "HALF_OPEN" /\ b.half_open_calls >= b.config.half_open_max_calls

\* call(), when it does not raise
admit(b) ==
    IF b.state = "HALF_OPEN"
    THEN [b EXCEPT !.half_open_calls = @ + 1]
    ELSE b

\* A variant that closes the breaker from any state but CLOSED
onSuccessClosesOpen(b) ==
    LET counted == [b EXCEPT !.stats.successes = @ + 1,
                             !.stats.consecutive_successes = @ + 1]
    IN  IF counted.state # "CLOSED"
          /\ counted.stats.consecutive_successes >= counted.config.success_threshold
    THEN [counted EXCEPT !.state = "CLOSED", !.stats.failures = 0]
    ELSE counted

\* _on_success / onSuccess
onSuccess(b) ==
    LET counted == [b EXCEPT !.stats.successes = @ + 1,
                             !.stats.consecutive_successes = @ + 1]
    IN  IF counted.state = "HALF_OPEN"
           /\ counted.stats.consecutive_successes >= counted.config.success_threshold
        THEN [counted EXCEPT !.state = "CLOSED", !.stats.failures = 0]
        ELSE counted

\* _on_failure / onFailure at instant t
onFailure(b, t) ==
    LET counted == [b EXCEPT !.stats.failures = @ + 1,
                             !.stats.last_failure_time = t,
                             !.stats.consecutive_successes = 0]
    IN  IF counted.state = "CLOSED"
        THEN IF counted.stats.failures >= counted.config.failure_threshold
             THEN [counted EXCEPT !.state = "OPEN"]
             ELSE counted
        ELSE IF counted.state = "HALF_OPEN"
             THEN [counted EXCEPT !.state = "OPEN"]
             ELSE counted

\* One line of the log: what happened, the breaker's state before and after,
\* and for a failure the instant.
Entry(ev, from, to, at) == [ev |-> ev, from |-> from, to |-> to, at |-> at]

CliIdle ==
    /\ cmd = "breaker"
    /\ pc = "done"
    /\ name = HelloMcp
    /\ opts = [lang |-> "python", pattern |-> "basic", transport |-> "stdio",
               git |-> TRUE, install |-> TRUE]
    /\ templateExists = FALSE
    /\ template = <<>>
    /\ projectExists = FALSE
    /\ dirs = {}
    /\ files = <<>>
    /\ initial = Snapshot(projectExists, dirs, files)
    /\ generated = "no"
    /\ lang = "null"
    /\ result = NewResult
    /\ analysis = NoAnalysis
    /\ exitCode = 0
    /\ effects = <<>>
    /\ args = NoArgs
    /\ output = <<>>
    /\ otherPc = "idle"

InitBreaker ==
    /\ CliIdle
    /\ breaker \in {NewBreaker(config) : config \in BreakerConfigs}
    /\ running = 0
    /\ now = 1
    /\ log = <<>>

cli == <<cmd, pc, name, opts, templateExists, template, projectExists, dirs, files,
         generated, lang, result, analysis, exitCode, effects, args, output,
         initial, otherPc>>

CallsMade == Len(SelectSeq(log, LAMBDA e : e.ev \in {"admit", "reject"}))

\* call(): the state check and the admission; the wrapped function starts
\* when the call is admitted
Call ==
    /\ cmd = "breaker"
    /\ CallsMade < MaxCalls
    /\ running < MaxCallers
    /\ LET checked == checkStateTransition(breaker, now)
       IN  IF Rejects(checked)
           THEN /\ breaker' = checked
                /\ log' = Append(log, Entry("reject", breaker.state, checked.state, NoTime))
                /\ UNCHANGED running
           ELSE /\ breaker' = admit(checked)
                /\ log' = Append(log, Entry("admit", breaker.state, checked.state, NoTime))
                /\ running' = running + 1
    /\ UNCHANGED <<cli, now>>

\* The wrapped function returns: _on_success
Succeed ==
    /\ cmd = "breaker"
    /\ running > 0
    /\ running' = running - 1
    /\ breaker' = onSuccess(breaker)
    /\ log' = Append(log, Entry("success", breaker.state, breaker'.state, NoTime))
    /\ UNCHANGED <<cli, now>>

\* The wrapped function raises: _on_failure
Fail ==
    /\ cmd = "breaker"
    /\ running > 0
    /\ running' = running - 1
    /\ breaker' = onFailure(breaker, now)
    /\ log' = Append(log, Entry("failure", breaker.state, breaker'.state, now))
    /\ UNCHANGED <<cli, now>>

\* Time passes
Tick ==
    /\ cmd = "breaker"
    /\ now < MaxTime
    /\ now' = now + 1
    /\ UNCHANGED <<cli, breaker, running, log>>

BreakerStep == Call \/ Succeed \/ Fail \/ Tick

SpecBreaker == InitBreaker /\ [][BreakerStep]_vars

(***************************************************************************)
(* Properties of the validator, the analyzer and the generators.           *)
(***************************************************************************)
\* The server file of the project new has just generated.
GeneratedServer == files[GeneratedServerPath(name, opts.lang)]

\* new has filled the directory with the procedural generator.
FreshlyGenerated == generated = "procedural"

\* C1: in every state of validateProject, after each of its checks and in
\* the result it returns, valid is TRUE exactly when the errors list is
\* empty, whatever the warnings list holds.
C1_ValidIffNoErrors ==
    Validating => (result.valid <=> result.errors = <<>>)

\* validateProject has returned a result with errors and warnings.
C1_Witness ==
    /\ cmd = "validateProject" /\ pc = "returned"
    /\ Len(result.errors) = 2
    /\ Len(result.warnings) >= 1
    /\ ~result.valid

\* C2 (as stated): the analyzer, run on a project the procedural generator
\* has just written, returns the tool, resource and prompt identifiers the
\* generator declared in the server file, in order.
C2_AnalyzerReturnsEmitted ==
    (cmd = "diagram" /\ pc = "d_output" /\ FreshlyGenerated) =>
        /\ analysis.tools = EmittedIdentifiers(GeneratedServer, "tool")
        /\ analysis.resources = EmittedIdentifiers(GeneratedServer, "resource")
        /\ analysis.prompts = EmittedIdentifiers(GeneratedServer, "prompt")

\* C3 (as stated): validating a freshly generated enterprise project gives
\* no error and no "No tools defined in server" warning.
C3_EnterpriseValidatesClean ==
    (cmd = "validate" /\ pc = "v_report" /\ FreshlyGenerated
        /\ opts.pattern = "enterprise") =>
        /\ result.errors = <<>>
        /\ \A i \in 1..Len(result.warnings) :
              result.warnings[i] # "No tools defined in server"

\* The entry-point files the validator of `l` looks for.
EntryPoints(n, l) ==
    CASE l = "python"     -> {Path(InDir(Root, ProjectDirName(n)), "server.py"),
                              Path(SrcDir, "server.py"),
                              Path(Root, "server.py")}
      [] l = "typescript" -> {Path(SrcDir, "index.ts")}
      [] l = "go"         -> {Path(Root, "main.go")}
      [] l = "rust"       -> {Path(SrcDir, "main.rs")}

\* The error that names the missing entry point of `l`.
MissingEntryPoint(l) ==
    CASE l = "python"     -> "Missing server.py file"
      [] l = "typescript" -> "Missing src/index.ts"
      [] l = "go"         -> "Missing main.go"
      [] l = "rust"       -> "Missing src/main.rs"

\* validateProject has returned for a directory that holds the manifest of
\* the language and none of its entry-point files.
ManifestWithoutEntryPoint ==
    /\ Validating /\ pc = Returned
    /\ pathExists(files, ManifestPath(lang))
    /\ \A p \in EntryPoints(name, lang) : ~pathExists(files, p)

\* The manifest of `l` lists an MCP package among its dependencies.
DeclaresMcpDependency(f, l) ==
    LET manifest == f[ManifestPath(l)]
        deps == CASE l = "python"     -> {"toml_dep_mcp", "toml_dep_fastmcp"}
                  [] l = "typescript" -> {"json_dependency", "json_dev_dependency"}
                  [] l = "go"         -> {"gomod_require_mcp_go", "gomod_require_go_sdk"}
                  [] l = "rust"       -> {"cargo_dep_rmcp"}
    IN  \E i \in 1..Len(manifest) :
           /\ manifest[i].shape \in deps
           /\ l = "typescript" => manifest[i].id = "@modelcontextprotocol/sdk"

\* C4 (as stated): a directory with the manifest and no entry-point file
\* yields exactly one error, the one naming the entry point, and valid FALSE.
C4_ManifestWithoutEntryOneError ==
    ManifestWithoutEntryPoint =>
        /\ result.errors = <<MissingEntryPoint(lang)>>
        /\ ~result.valid

\* C4 (amended): a directory whose manifest lists an MCP dependency (and, for
\* TypeScript, is JSON) and that has no entry-point file yields exactly one
\* error, the one naming the entry point, and valid FALSE.
C4_DependencyDeclaredOneError ==
    (ManifestWithoutEntryPoint /\ DeclaresMcpDependency(files, lang)) =>
        /\ result.errors = <<MissingEntryPoint(lang)>>
        /\ ~result.valid

\* A Rust project with rmcp in Cargo.toml and no src/main.rs has been validated.
C4_Witness ==
    /\ ManifestWithoutEntryPoint
    /\ lang = "rust"
    /\ DeclaresMcpDependency(files, lang)
    /\ result.errors = <<"Missing src/main.rs">>

\* C5: the analyzer, run on the basic Python project hello-mcp that new has
\* just generated, returns tools hello, add, the resource config://settings
\* and no prompt.
C5_HelloMcpAnalysis ==
    (cmd = "diagram" /\ pc = "d_output" /\ FreshlyGenerated /\ name = HelloMcp
        /\ opts.lang = "python" /\ opts.pattern = "basic") =>
        /\ analysis.tools = <<"hello", "add">>
        /\ analysis.resources = <<"config://settings">>
        /\ analysis.prompts = <<>>

\* diagram has analysed the generated hello-mcp and found its two tools.
C5_Witness ==
    /\ cmd = "diagram" /\ pc = "d_output" /\ FreshlyGenerated
    /\ name = HelloMcp /\ opts.lang = "python" /\ opts.pattern = "basic"
    /\ Len(analysis.tools) = 2

\* new has just run the procedural generator for `pattern`.
JustGenerated(pattern) ==
    /\ cmd = "new" /\ pc = "n_git"
    /\ FreshlyGenerated
    /\ opts.pattern = pattern

\* What the generators write for the basic pattern, other inputs being equal.
BasicProject == generateProject(name, opts.lang, "basic", opts.transport)

\* C6 (as stated): in every language the enterprise project differs from the
\* basic one, and declares a health-check tool and one prompt.
C6_EnterpriseAddsHealthCheckAndPrompt ==
    JustGenerated("enterprise") =>
        /\ files # BasicProject.files
        /\ \E i \in 1..Len(EmittedIdentifiers(GeneratedServer, "tool")) :
              EmittedIdentifiers(GeneratedServer, "tool")[i] = "health_check"
        /\ Len(EmittedIdentifiers(GeneratedServer, "prompt")) = 1

\* C7 (as stated): in every language the basic project declares exactly two
\* tools, hello with a parameter defaulting to a literal and add, and exactly
\* one resource.
C7_BasicTwoToolsOneResource ==
    JustGenerated("basic") =>
        /\ EmittedIdentifiers(GeneratedServer, "tool") = <<"hello", "add">>
        /\ \E i \in 1..Len(GeneratedServer) :
              GeneratedServer[i].shape \in DefaultShapes
        /\ Len(EmittedIdentifiers(GeneratedServer, "resource")) = 1

\* C8: when there is no template directory, the directories and files new
\* writes for the pattern microservices are those it writes for basic.
C8_MicroservicesAsBasic ==
    (JustGenerated("microservices") /\ ~templateExists) =>
        /\ files = BasicProject.files
        /\ dirs = BasicProject.dirs

\* new has generated a Python microservices project without a template.
C8_Witness ==
    /\ JustGenerated("microservices") /\ ~templateExists
    /\ opts.lang = "python"
    /\ pathExists(files, GeneratedServerPath(name, "python"))

\* new was given an unsupported option or a name whose directory exists.
Rejected ==
    /\ cmd = "new"
    /\ \/ opts.lang \notin {"python", "typescript", "go", "rust"}
       \/ opts.pattern \notin {"basic", "enterprise", "microservices"}
       \/ opts.transport \notin {"stdio", "sse", "http"}
       \/ initial.projectExists

\* C9: new with an unsupported language, pattern or transport, or with a name
\* whose directory exists, ends with a non-zero status, and the directory,
\* its subdirectories and its files stay as they were; git and the
\* installation of dependencies are not started.
C9_RejectedWithoutEffects ==
    Rejected =>
        /\ Snapshot(projectExists, dirs, files) = initial
        /\ effects = <<>>
        /\ \/ pc \in {"n_inputs", "n_exists"}
           \/ pc = "exited" /\ exitCode # 0

\* new has ended on finding the directory, all options being supported.
C9_Witness ==
    /\ Rejected /\ pc = "exited" /\ exitCode = 1
    /\ opts.lang = "go" /\ opts.pattern = "basic" /\ opts.transport = "sse"
    /\ initial.projectExists
    /\ opts.git /\ opts.install

\* The manifest file of each language, in the order of the detector.
DetectionOrder ==
    << <<"python", "pyproject.toml">>, <<"typescript", "package.json">>,
       <<"go", "go.mod">>, <<"rust", "Cargo.toml">> >>

\* The first language of the order whose manifest is in `f`, "null" if none.
FirstManifestLanguage(f) ==
    LET present == {i \in 1..Len(DetectionOrder) :
                      Path(Root, DetectionOrder[i][2]) \in DOMAIN f}
    IN  IF present = {} THEN "null"
        ELSE DetectionOrder[CHOOSE i \in present : \A j \in present : i <= j][1]

\* C10: on every directory each of the three detectors returns the first
\* language, in the order python, typescript, go, rust, whose manifest is
\* present, and null when none is; so does the command that ran one.
C10_DetectLanguagePriority ==
    /\ detectLanguageDiagram(files) = FirstManifestLanguage(files)
    /\ detectLanguageValidate(files) = FirstManifestLanguage(files)
    /\ detectLanguageAdd(files) = FirstManifestLanguage(files)
    /\ (cmd \in {"validate", "diagram", "add"}
          /\ pc \in {"v_common", "d_analyze", "a_snippet"}) =>
             lang = FirstManifestLanguage(files)

\* add has detected typescript in a directory that also holds go.mod and
\* Cargo.toml.
C10_Witness ==
    /\ cmd = "add" /\ pc = "a_snippet"
    /\ lang = "typescript"
    /\ ~pathExists(files, Path(Root, "pyproject.toml"))
    /\ pathExists(files, Path(Root, "go.mod"))
    /\ pathExists(files, Path(Root, "Cargo.toml"))

(***************************************************************************)
(* Properties of new: template resolution and the order of its steps.      *)
(***************************************************************************)
\* The two ways new fills the directory, as they appear in effects.
WriterSteps == {"copyTemplateFiles", "generateProject"}

GitSteps == {"git init", "git add", "git commit"}

\* The writers new has run so far, in order.
WritersRun == SelectSeq(effects, LAMBDA e : e \in WriterSteps)

\* new has passed the template resolution.
PastResolution ==
    /\ cmd = "new"
    /\ pc \in {"n_git", "n_git_add", "n_git_commit", "n_install", "done"}

\* C11: a run of new that gets past the template resolution has run exactly
\* one writer: the materializer when templates/<lang>/<pattern> exists, the
\* procedural generator when it does not; a finished run, with or without a
\* template directory, ends with status 0.
C11_ExactlyOneWriter ==
    /\ cmd = "new" => Len(WritersRun) <= 1
    /\ PastResolution =>
          WritersRun = IF templateExists THEN <<"copyTemplateFiles">>
                       ELSE <<"generateProject">>
    /\ (cmd = "new" /\ pc = "done") => exitCode = 0

\* new has finished, having generated the project for want of a template.
C11_Witness ==
    /\ cmd = "new" /\ pc = "done" /\ exitCode = 0
    /\ ~templateExists
    /\ WritersRun = <<"generateProject">>
    /\ DOMAIN files # {}

\* The steps of effects are in the order: writer, git steps, install.
StepsInOrder ==
    \A i, j \in 1..Len(effects) :
        i < j =>
            /\ effects[j] \in WriterSteps => effects[i] \notin GitSteps \cup {"install"}
            /\ effects[j] \in GitSteps => effects[i] # "install"

\* A git or install step has been started.
GitOrInstallStarted ==
    \E i \in 1..Len(effects) : effects[i] \in GitSteps \cup {"install"}

\* C12: within one run of new, git and install steps come after the writer
\* has finished, git steps come before the install step, and once a git or
\* install step has begun the tool changes no file and no directory of the
\* project.
C12_WriteThenGitThenInstall ==
    /\ [](cmd = "new" =>
            /\ StepsInOrder
            /\ GitOrInstallStarted => Len(WritersRun) = 1)
    /\ [][(cmd = "new" /\ GitOrInstallStarted) =>
            (files' = files /\ dirs' = dirs)]_vars

\* new has finished after the writer, the three git steps and the install.
C12_Witness ==
    /\ cmd = "new" /\ pc = "done"
    /\ effects = <<"mkdir", "generateProject", "git init", "git add",
                   "git commit", "install">>

(***************************************************************************)
(* Properties of the template materializer.                                *)
(***************************************************************************)
\* The name `n` with each marker of a context key replaced by the key's
\* value, reading the name once from left to right.
RECURSIVE MarkersReplaced(_, _)
MarkersReplaced(n, context) ==
    IF n = <<>> THEN <<>>
    ELSE LET hits == {k \in 1..Len(context) : StartsWith(n, Marker(context[k][1]))}
         IN  IF hits = {}
             THEN <<Head(n)>> \o MarkersReplaced(Tail(n), context)
             ELSE LET k == CHOOSE h \in hits : \A j \in hits : h <= j
                  IN  context[k][2]
                      \o MarkersReplaced(
                            SubSeq(n, Len(Marker(context[k][1])) + 1, Len(n)),
                            context)

\* The name `n` without a trailing .hbs
WithoutHbsSuffix(n) ==
    IF \E k \in 0..Len(n) : n = SubSeq(n, 1, k) \o <<".", "h", "b", "s">>
    THEN SubSeq(n, 1, Len(n) - 4)
    ELSE n

\* Where the files of a template tree are to land under `dir`.
RECURSIVE MirroredFiles(_, _, _)
MirroredFiles(entries, dir, context) ==
    IF entries = <<>> THEN {}
    ELSE LET e == Head(entries)
             n == MarkersReplaced(e.name, context)
         IN  (IF e.isDir
              THEN MirroredFiles(e.children, InDir(dir, n), context)
              ELSE {[dir |-> dir, file |-> WithoutHbsSuffix(n)]})
             \cup MirroredFiles(Tail(entries), dir, context)

\* Where the directories of a template tree are to land under `dir`.
RECURSIVE MirroredDirs(_, _, _)
MirroredDirs(entries, dir, context) ==
    IF entries = <<>> THEN {}
    ELSE LET e == Head(entries)
             n == MarkersReplaced(e.name, context)
         IN  (IF e.isDir
              THEN {InDir(dir, n)} \cup MirroredDirs(e.children, InDir(dir, n), context)
              ELSE {})
             \cup MirroredDirs(Tail(entries), dir, context)

\* The number of file entries of a template tree.
RECURSIVE FileEntries(_)
FileEntries(entries) ==
    IF entries = <<>> THEN 0
    ELSE (IF Head(entries).isDir THEN FileEntries(Head(entries).children) ELSE 1)
         + FileEntries(Tail(entries))

DiagramProduced == cmd = "diagram" /\ pc = "done"

\* The text diagram has produced.
DiagramText == output[1].text

\* The lines of kind `kind` whose label holds `letter` at place `at`, in
\* text order.
LinesOf(text, kind, letter, at) ==
    SelectSeq(text, LAMBDA l : l.kind = kind /\ l.label[at] = letter)

\* The subgraph of `title` is in the text iff `ids` is not empty; its nodes
\* are one per identifier, in order, labelled with it; its edges, one per node.
KindRendered(text, title, letter, ids) ==
    /\ Len(SelectSeq(text, LAMBDA l : l.kind = "subgraph" /\ l.label = <<title>>))
         = IF ids = <<>> THEN 0 ELSE 1
    /\ LinesOf(text, "node", letter, 1)
         = [i \in 1..Len(ids) |-> Line("node", i - 1, <<letter, ids[i]>>)]
    /\ LinesOf(text, "edge", letter, 2)
         = [i \in 1..Len(ids) |-> Line("edge", i - 1, <<"SERVER", letter>>)]

\* C14: the diagram holds the Tools, Resources, Prompts subgraph iff the list
\* is not empty, then with one node per capability, in list order, labelled
\* with its identifier, and one SERVER --> edge per node; the client node and
\* its two-way edge to SERVER are always there.
C14_DiagramRendersLists ==
    DiagramProduced =>
        /\ KindRendered(DiagramText, "Tools", "T", analysis.tools)
        /\ KindRendered(DiagramText, "Resources", "R", analysis.resources)
        /\ KindRendered(DiagramText, "Prompts", "P", analysis.prompts)
        /\ Len(SelectSeq(DiagramText, LAMBDA l : l.kind = "client")) = 1
        /\ Len(SelectSeq(DiagramText, LAMBDA l : l.kind = "bidirectional")) = 1

\* A diagram of two tools, no resource and one prompt has been produced.
C14_Witness ==
    /\ DiagramProduced
    /\ analysis.tools = <<"add", "hello">>
    /\ analysis.resources = <<>>
    /\ analysis.prompts = <<"system_prompt">>
    /\ Len(DiagramText) = 17

\* C15 (as stated): with a file target the diagram text is written, as it
\* is, to the file, whatever the output format; without a file target the
\* text is printed and no file is written.
C15_FileTargetWritten ==
    DiagramProduced =>
        IF args.file
        THEN /\ output = <<[to |-> "file", text |-> generateMermaidDiagram(analysis)]>>
             /\ effects = <<"write diagram">>
        ELSE /\ output = <<[to |-> "console", text |-> generateMermaidDiagram(analysis)]>>
             /\ effects = <<>>

(***************************************************************************)
(* Properties of the exit status.                                          *)
(***************************************************************************)
\* A command has ended.
Ended == pc \in {"done", "exited"}

\* diagram has ended on a project in which it found no capability.
DiagramFoundNothing ==
    /\ cmd = "diagram" /\ Ended
    /\ projectExists /\ lang # "null"
    /\ analysis.tools = <<>> /\ analysis.resources = <<>> /\ analysis.prompts = <<>>

\* The package.json of a TypeScript project is not JSON.
PackageJsonNotJson ==
    /\ lang = "typescript"
    /\ \E i \in 1..Len(files[Path(Root, "package.json")]) :
          files[Path(Root, "package.json")][i].shape = "json_syntax_error"

\* C16 (as stated): validate ends with a non-zero status iff the validation
\* produced an error or the path or the language could not be resolved; a
\* diagram run that finds no capability ends with status 0.
C16_NonZeroIffErrors ==
    /\ (cmd = "validate" /\ Ended) =>
          (exitCode # 0 <=>
              (Len(result.errors) >= 1 \/ ~projectExists \/ lang = "null"))
    /\ DiagramFoundNothing => exitCode = 0

\* C16 (amended): validate ends with a non-zero status iff the validation
\* produced an error, or the path or the language could not be resolved, or
\* package.json could not be parsed; a result with warnings and no error,
\* and a diagram run that finds no capability, end with status 0.
C16_NonZeroIffErrorsOrThrown ==
    /\ (cmd = "validate" /\ Ended) =>
          (exitCode # 0 <=>
              (Len(result.errors) >= 1 \/ ~projectExists \/ lang = "null"
                  \/ PackageJsonNotJson))
    /\ DiagramFoundNothing => exitCode = 0

\* validate has ended with status 0 on a result with warnings and no error.
C16_Witness ==
    /\ cmd = "validate" /\ pc = "done" /\ exitCode = 0
    /\ result.errors = <<>>
    /\ Len(result.warnings) >= 2

(***************************************************************************)
(* Properties of the analyzer on a project without entry point.            *)
(***************************************************************************)
\* The places where the analyzer looks for the entry point of language l.
AnalyzerLookup(n, l) ==
    LET pkg == InDir(Root, ProjectDirName(n))
    IN  CASE l = "python"     -> {Path(Root, "server.py"), Path(pkg, "server.py")}
          [] l = "typescript" -> {Path(SrcDir, "index.ts"), Path(Root, "index.ts"),
                                  Path(pkg, "index.ts")}
          [] l = "go"         -> {Path(Root, "main.go")}
          [] l = "rust"       -> {Path(SrcDir, "main.rs")}
          [] OTHER            -> {}

EntryPointNotFound == AnalyzerLookup(name, lang) \cap DOMAIN files = {}

Analyzed == cmd = "diagram" /\ pc \in {"d_output", "done"}

\* C17: for every language, when the entry-point file is at none of the
\* places the analyzer looks in, analyzeProject returns a result for the
\* project with empty tools, resources and prompts, and the run does not fail.
C17_AbsentEntryEmptyAnalysis ==
    (Analyzed /\ EntryPointNotFound) =>
        /\ analysis = [name |-> name, language |-> lang,
                       tools |-> <<>>, resources |-> <<>>, prompts |-> <<>>]
        /\ lang \in SUPPORTED_LANGUAGES
        /\ exitCode = 0

\* A Python project whose only server.py is in src/, where the analyzer does
\* not look, has been analyzed.
C17_Witness ==
    /\ Analyzed /\ pc = "done" /\ EntryPointNotFound
    /\ lang = "python"
    /\ pathExists(files, Path(SrcDir, "server.py"))
    /\ Captures(files[Path(SrcDir, "server.py")], {"py_tool_async_def"}) # <<>>
    /\ analysis.tools = <<>>

(***************************************************************************)
(* Properties of the name conversions.                                     *)
(***************************************************************************)
Converted == cmd = "convert" /\ pc \in {"s_again", "done"}

\* C18: for every list of words, toSnakeCase of its kebab, snake or Pascal
\* form is its snake form and toKebabCase of any of the three is its kebab
\* form; toPascalCase of its kebab or snake form is its Pascal form; a
\* single lowercase word is unchanged by toSnakeCase and toKebabCase.
C18_FormsAgree ==
    Converted =>
        \A ws \in WordLists :
            /\ name \in {KebabForm(ws), SnakeForm(ws), PascalForm(ws)} =>
                  /\ output[1].snake = SnakeForm(ws)
                  /\ output[1].kebab = KebabForm(ws)
            /\ name \in {KebabForm(ws), SnakeForm(ws)} =>
                  output[1].pascal = PascalForm(ws)
            /\ (Len(ws) = 1 /\ name = ws[1]) =>
                  output[1].snake = name /\ output[1].kebab = name

\* MyProject has been converted to my_project and my-project.
C18_Witness ==
    /\ Converted
    /\ name = <<"M", "y", "P", "r", "o", "j", "e", "c", "t">>
    /\ output[1].snake = <<"m", "y", "_", "p", "r", "o", "j", "e", "c", "t">>
    /\ output[1].kebab = <<"m", "y", "-", "p", "r", "o", "j", "e", "c", "t">>

\* The segments of s between hyphens, empty segments kept
RECURSIVE HyphenSegments(_, _)
HyphenSegments(s, cur) ==
    IF s = <<>> THEN <<cur>>
    ELSE IF Head(s) = "-"
         THEN <<cur>> \o HyphenSegments(Tail(s), <<>>)
         ELSE HyphenSegments(Tail(s), Append(cur, Head(s)))

\* Each segment with its first character in upper case, concatenated
RECURSIVE CapitalizedSegments(_)
CapitalizedSegments(segs) ==
    IF segs = <<>> THEN <<>>
    ELSE (IF Head(segs) = <<>> THEN <<>>
          ELSE <<UpperChar(Head(segs)[1])>> \o Tail(Head(segs)))
         \o CapitalizedSegments(Tail(segs))

\* No uppercase letter of n starts a new segment: each one is the first
\* character of n or follows a separator.
NoUpperStartsSegment(n) ==
    \A i \in 2..Len(n) : IsUpper(n[i]) => n[i - 1] \in {"-", "_"}

\* C19: for every valid name N, toPascalCase(toKebabCase(N)) is the
\* hyphen-delimited segments of toKebabCase(N), each capitalized, and it
\* equals toPascalCase(N) when no uppercase letter of N starts a new segment.
C19_PascalOfKebab ==
    (cmd = "convert" /\ pc = "done") =>
        /\ output[4].of = output[1].kebab
        /\ output[4].pascal = CapitalizedSegments(HyphenSegments(output[1].kebab, <<>>))
        /\ NoUpperStartsSegment(name) => output[4].pascal = output[1].pascal

\* B_a2 went through b-a2 to BA2, which is also its own Pascal form.
C19_Witness ==
    /\ cmd = "convert" /\ pc = "done"
    /\ name = <<"B", "_", "a", "2">>
    /\ output[1].kebab = <<"b", "-", "a", "2">>
    /\ output[4].pascal = <<"B", "A", "2">>
    /\ output[1].pascal = <<"B", "A", "2">>

(***************************************************************************)
(* Properties of the commands on a path that cannot be resolved.           *)
(***************************************************************************)
ManifestNames == {"pyproject.toml", "package.json", "go.mod", "Cargo.toml"}

\* The path does not exist, or the directory holds no language manifest.
Unresolvable ==
    /\ cmd \in {"validate", "diagram", "add"}
    /\ \/ ~projectExists
       \/ \A f \in ManifestNames : Path(Root, f) \notin DOMAIN files

\* What the command prints when it rejects the path: the unsupported type
\* when add was given one, else the missing path or the undetected language.
RejectionReport ==
    IF cmd = "add" /\ args.type \notin SUPPORTED_TYPES
    THEN <<Report("Unsupported type"), Hint("Supported types")>>
    ELSE IF ~projectExists THEN <<Report("path not found")>>
    ELSE IF cmd = "add"
         THEN <<Report("Could not detect project language"),
                Hint("Make sure you are in an MCP server project directory")>>
         ELSE <<Report("Could not detect project language")>>

TransportOf(tok) ==
    CASE tok.shape = "py_run_transport" -> tok.id
      [] tok.shape \in {"ts_main_stdio", "go_serve_stdio", "rs_run_stdio"} -> "stdio"
      [] OTHER -> "none"

\* The transports the files of the project directory configure.
ConfiguredTransports ==
    UNION {{TransportOf(files[p][i]) : i \in 1..Len(files[p])} : p \in DOMAIN files}
        \ {"none"}

\* C21: for every language, the project written by the procedural generator
\* is configured for the transport chosen on the command line, and for no
\* other.
C21_ConfiguredForChosenTransport ==
    (cmd = "new" /\ pc = "n_git" /\ FreshlyGenerated) =>
        ConfiguredTransports = {opts.transport}

(***************************************************************************)
(* Properties of the documented circuit breaker.                           *)
(***************************************************************************)
\* The lines of the log after the last one that changed the state to `state`
\* (the whole log when there is none).
Since(state) ==
    LET changes == {i \in 1..Len(log) : log[i].to = state /\ log[i].from # state}
        last == IF changes = {} THEN 0
                ELSE CHOOSE i \in changes : \A j \in changes : j <= i
    IN  SubSeq(log, last + 1, Len(log))

Count(l, ev) == Len(SelectSeq(l, LAMBDA e : e.ev = ev))

\* The returns and raises of the wrapped function, in order
Outcomes == SelectSeq(log, LAMBDA e : e.ev \in {"success", "failure"})

\* The instant of the last failure, NoTime when there was none
LastFailureAt ==
    LET failures == SelectSeq(log, LAMBDA e : e.ev = "failure")
    IN  IF failures = <<>> THEN NoTime ELSE failures[Len(failures)].at

Changed(from, to) == breaker.state = from /\ breaker'.state = to

\* What the log shows when the breaker has just changed its state
ChangeJustified ==
    LET l == log[Len(log)]
        n == breaker.config.success_threshold
    IN  /\ Len(log) >= 1
        /\ l.from # l.to /\ l.to = breaker.state
        /\ CASE l.to = "OPEN" /\ l.from = "CLOSED" ->
                  /\ l.ev = "failure"
                  /\ Count(Since("CLOSED"), "failure") >= breaker.config.failure_threshold
             [] l.to = "OPEN" /\ l.from = "HALF_OPEN" ->
                  l.ev = "failure"
             [] l.to = "HALF_OPEN" ->
                  /\ l.from = "OPEN" /\ l.ev = "admit"
                  /\ LastFailureAt # NoTime
                  /\ now - LastFailureAt >= breaker.config.timeout
             [] l.to = "CLOSED" ->
                  /\ l.from = "HALF_OPEN" /\ l.ev = "success"
                  /\ Len(Outcomes) >= n
                  /\ \A i \in (Len(Outcomes) - n + 1)..Len(Outcomes) :
                        Outcomes[i].ev = "success" /\ Outcomes[i].from = "HALF_OPEN"

OpenAndWaiting ==
    /\ cmd = "breaker"
    /\ breaker.state = "OPEN"
    /\ now - LastFailureAt < breaker.config.timeout

\* A call has just been made.
CallMade ==
    /\ Len(log') = Len(log) + 1
    /\ log'[Len(log')].ev \in {"admit", "reject"}

\* The calls admitted since the breaker became half-open, the one that made
\* it half-open included.
AdmittedHalfOpen == 1 + Count(Since("HALF_OPEN"), "admit")

\* C23: while the breaker is OPEN and the timeout has not elapsed, a call is
\* rejected, the wrapped function is not started and the breaker is left as
\* it is; while it is HALF_OPEN, at most half_open_max_calls calls have been
\* admitted since it became half-open.
C23_OpenRejectsHalfOpenLimits ==
    /\ [][(OpenAndWaiting /\ CallMade) =>
            /\ log'[Len(log')].ev = "reject"
            /\ running' = running
            /\ breaker' = breaker]_vars
    /\ []((cmd = "breaker" /\ breaker.state = "HALF_OPEN") =>
            AdmittedHalfOpen <= breaker.config.half_open_max_calls)

\* One call was rejected while the breaker was open, a later one because the
\* half-open limit was reached, with half_open_max_calls admitted before it.
C23_Witness ==
    /\ cmd = "breaker" /\ breaker.state = "HALF_OPEN"
    /\ \E i \in 1..Len(log) : log[i].ev = "reject" /\ log[i].from = "OPEN" /\ log[i].to = "OPEN"
    /\ log[Len(log)].ev = "reject" /\ log[Len(log)].from = "HALF_OPEN"
    /\ AdmittedHalfOpen = breaker.config.half_open_max_calls

(***************************************************************************)
(* Properties of the order of the conversion steps.                        *)
(***************************************************************************)
\* The four steps in the order the specification lists them: insert sep
\* before each uppercase letter, lowercase, turn each other separator into
\* sep, strip one leading sep.
StepsAsListed(str, sep, other) ==
    StripLeading(ReplaceAll(toLowerCase(PrefixUpper(str, sep)), other, sep), sep)

\* C24: for every valid name, toSnakeCase returns the result of the four
\* steps in the listed order (hyphens turned into underscores before the
\* leading underscore is stripped) and toKebabCase the result of the
\* symmetric steps, also for names that begin with '-' or '_'.
C24_StepsInListedOrder ==
    Converted =>
        /\ output[1].snake = StepsAsListed(name, "_", "-")
        /\ output[1].kebab = StepsAsListed(name, "-", "_")

(***************************************************************************)
(* Properties of validateProject on a directory without manifest.          *)
(***************************************************************************)
ManifestName(l) ==
    CASE l = "python"     -> "pyproject.toml"
      [] l = "typescript" -> "package.json"
      [] l = "go"         -> "go.mod"
      [] l = "rust"       -> "Cargo.toml"

MissingManifestError(l) ==
    CASE l = "python"     -> "Missing pyproject.toml"
      [] l = "typescript" -> "Missing package.json"
      [] l = "go"         -> "Missing go.mod"
      [] l = "rust"       -> "Missing Cargo.toml"

\* validateProject runs for a language whose manifest the directory lacks.
ManifestLacking ==
    /\ Validating
    /\ lang \in SUPPORTED_LANGUAGES
    /\ Path(Root, ManifestName(lang)) \notin DOMAIN files

\* The findings of the common checks, in their order
CommonFindings ==
    (IF Path(Root, "README.md") \in DOMAIN files THEN <<>> ELSE <<"Missing README.md">>)
    \o (IF Path(Root, ".gitignore") \in DOMAIN files THEN <<>> ELSE <<"Missing .gitignore">>)
    \o (IF Path(Root, ".env") \in DOMAIN files
        THEN <<".env file found - ensure it is in .gitignore">> ELSE <<>>)

\* C25: for every language, when validateProject is called on a directory
\* that lacks the language's manifest, no dependency, entry-point or tool
\* check is run, and the result returned has the missing manifest as its
\* only error and the findings of the common checks as its warnings.
C25_MissingManifestShortCircuits ==
    ManifestLacking =>
        /\ pc \in {"v_common", "v_manifest", "returned"}
        /\ pc = "returned" =>
              /\ result.errors = <<MissingManifestError(lang)>>
              /\ result.warnings = CommonFindings
              /\ ~result.valid

\* validateProject has returned for a Rust project that has its entry point
\* and no Cargo.toml.
C25_Witness ==
    /\ cmd = "validateProject" /\ pc = "returned"
    /\ ManifestLacking /\ lang = "rust"
    /\ Path(SrcDir, "main.rs") \in DOMAIN files
    /\ Len(result.warnings) = 3
    /\ result.errors = <<"Missing Cargo.toml">>

(***************************************************************************)
(* Properties of the materializer on unusual names.                        *)
(***************************************************************************)
Materialized == cmd = "new" /\ pc = "n_git" /\ generated = "template"

\* Where the directories of a template tree land when a directory entry
\* keeps its name, markers substituted, with any .hbs suffix.
RECURSIVE DirsSuffixKept(_, _, _)
DirsSuffixKept(entries, dir, context) ==
    IF entries = <<>> THEN {}
    ELSE LET e == Head(entries)
             n == SubstituteName(e.name, context)
         IN  (IF e.isDir
              THEN {InDir(dir, n)} \cup DirsSuffixKept(e.children, InDir(dir, n), context)
              ELSE {})
             \cup DirsSuffixKept(Tail(entries), dir, context)

\* C26: the materializer removes the .hbs suffix from file entries only: a
\* directory entry whose name ends in .hbs is mirrored under its substituted
\* name with the suffix kept, and the files of the tree land in these
\* directories.
C26_HbsKeptOnDirectories ==
    Materialized =>
        LET context == TemplateContext(name, opts.transport, opts.pattern)
        IN  /\ dirs = DirsSuffixKept(template, Root, context)
            /\ {p.dir : p \in DOMAIN files} \subseteq dirs \cup {Root}

\* Where the files of a template tree land when each entry's name is read
\* once, the markers of the original name replaced, and .hbs removed as the
\* materializer removes it.
RECURSIVE SinglePassFiles(_, _, _)
SinglePassFiles(entries, dir, context) ==
    IF entries = <<>> THEN {}
    ELSE LET e == Head(entries)
             n == StripHbs(MarkersReplaced(e.name, context))
         IN  (IF e.isDir
              THEN SinglePassFiles(e.children, InDir(dir, n), context)
              ELSE {[dir |-> dir, file |-> n]})
             \cup SinglePassFiles(Tail(entries), dir, context)

\* C27: substitution in entry names is single-pass: each marker of the
\* template entry's original name is replaced by the context value, and text
\* that a value brings in is not substituted again.
C27_SinglePassSubstitution ==
    Materialized =>
        DOMAIN files =
            SinglePassFiles(template, Root,
                            TemplateContext(name, opts.transport, opts.pattern))

(***************************************************************************)
(* Properties of the validator and the analyzer on the same directory.     *)
(***************************************************************************)
\* validateProject has run the entry-point check of a Python project.
PythonEntryChecked ==
    /\ Validating /\ lang = "python"
    /\ pc \in {"v_report", "returned"}
    /\ Path(Root, "pyproject.toml") \in DOMAIN files

\* The server.py the validator reads, and the one the analyzer reads
ValidatorServerFile == FirstExisting(files, PythonServerPaths(name))

AnalyzerServerFile == findFile(files, name, "server.py", FALSE, Root)

ReportsMissingServer ==
    \E i \in 1..Len(result.errors) : result.errors[i] = "Missing server.py file"

\* C28: for every Python project directory the validator and the analyzer
\* select the same server.py: the validator reports 'Missing server.py
\* file' exactly when the analyzer finds no file, and otherwise both read
\* the same path.
C28_SameServerFile ==
    PythonEntryChecked =>
        /\ ReportsMissingServer <=> AnalyzerServerFile = NullPath
        /\ ~ReportsMissingServer => ValidatorServerFile = AnalyzerServerFile

(***************************************************************************)
(* Properties of converting a converted name again.                        *)
(***************************************************************************)
\* Both conversions of the name and of its converted forms have been made.
ConvertedTwice == cmd = "convert" /\ pc = "done"

BeginsWith(s, c) == s # <<>> /\ Head(s) = c

\* The statement as made for every name: the snake form of the snake form
\* is the snake form, and the kebab form of the kebab form is the kebab form.
C29_IdempotentOnEveryName ==
    ConvertedTwice =>
        /\ output[2].snake = output[1].snake
        /\ output[4].kebab = output[1].kebab

\* C29: toSnakeCase is idempotent on every name whose snake form does not
\* begin with '_', and toKebabCase on every name whose kebab form does not
\* begin with '-'; both are idempotent on every name that begins with a
\* letter or a digit.
C29_IdempotentUnlessLeadingSeparator ==
    ConvertedTwice =>
        /\ ~BeginsWith(output[1].snake, "_") => output[2].snake = output[1].snake
        /\ ~BeginsWith(output[1].kebab, "-") => output[4].kebab = output[1].kebab
        /\ ~(BeginsWith(name, "-") \/ BeginsWith(name, "_")) =>
               /\ ~BeginsWith(output[1].snake, "_")
               /\ ~BeginsWith(output[1].kebab, "-")

\* A name with an uppercase letter and both separators inside, converted
\* twice with the same results.
C29_Witness ==
    /\ ConvertedTwice
    /\ name = <<"a", "B", "-", "_">>
    /\ output[1].snake = <<"a", "_", "b", "_", "_">>
    /\ output[2].snake = output[1].snake
    /\ output[1].kebab = <<"a", "-", "b", "-", "-">>
    /\ output[4].kebab = output[1].kebab

(***************************************************************************)
(* Properties of two new <name> for the same name at once.                 *)
(***************************************************************************)
\* This invocation, and the second one, have written project files.
ThisGenerated == cmd = "new" /\ generated # "no"

OtherGenerated == cmd = "new" /\ otherPc \in {"o_generated", "o_done"}

====
